---------------------------- MODULE Spec2Model ----------------------------
(***************************************************************************)
(* Payvlo GST calculator engine (src/src/lib/gst/calculator.ts).           *)
(*                                                                         *)
(* The engine is a set of pure functions over JavaScript Numbers and       *)
(* strings.  Numbers are modelled as IEEE 754 binary64 values: a sign, a   *)
(* 53-bit significand and a binary exponent, with round-to-nearest-even    *)
(* after every arithmetic operation, so that toFixed and Math.round see    *)
(* the same binary value the program sees.  Strings are sequences of       *)
(* one-character strings.                                                  *)
(***************************************************************************)
EXTENDS Integers, Sequences, FiniteSets, TLC

(***************************************************************************)
(* Natural numbers of arbitrary size: little-endian sequences of limbs in  *)
(* 0 .. Base-1 without leading zero limbs (the empty sequence is 0).       *)
(***************************************************************************)
Base == 2^15

RECURSIVE BNorm(_)
BNorm(a) ==
    IF a = <<>> THEN <<>>
    ELSE IF a[Len(a)] = 0 THEN BNorm(SubSeq(a, 1, Len(a) - 1))
    ELSE a

RECURSIVE BAddC(_, _, _)
BAddC(a, b, c) ==
    IF a = <<>> /\ b = <<>>
    THEN (IF c = 0 THEN <<>> ELSE <<c>>)
    ELSE LET x == IF a = <<>> THEN 0 ELSE Head(a)
             y == IF b = <<>> THEN 0 ELSE Head(b)
             s == x + y + c
         IN  <<s % Base>> \o BAddC(IF a = <<>> THEN <<>> ELSE Tail(a),
                                   IF b = <<>> THEN <<>> ELSE Tail(b),
                                   s \div Base)

BAdd(a, b) == BAddC(a, b, 0)

\* a - b for a >= b
RECURSIVE BSubB(_, _, _)
BSubB(a, b, w) ==
    IF a = <<>> THEN <<>>
    ELSE LET y == IF b = <<>> THEN 0 ELSE Head(b)
             d == Head(a) - y - w
         IN  <<d % Base>> \o BSubB(Tail(a),
                                   IF b = <<>> THEN <<>> ELSE Tail(b),
                                   IF d < 0 THEN 1 ELSE 0)

BSub(a, b) == BNorm(BSubB(a, b, 0))

\* -1, 0, 1 as a < b, a = b, a > b
RECURSIVE BCmpAt(_, _, _)
BCmpAt(a, b, i) ==
    IF i = 0 THEN 0
    ELSE IF a[i] < b[i] THEN -1
    ELSE IF a[i] > b[i] THEN 1
    ELSE BCmpAt(a, b, i - 1)

BCmp(a, b) ==
    IF Len(a) < Len(b) THEN -1
    ELSE IF Len(a) > Len(b) THEN 1
    ELSE BCmpAt(a, b, Len(a))

\* a * k + c for 0 <= k, c < Base
RECURSIVE BMulSmallC(_, _, _)
BMulSmallC(a, k, c) ==
    IF a = <<>> THEN (IF c = 0 THEN <<>> ELSE <<c>>)
    ELSE LET p == Head(a) * k + c
         IN  <<p % Base>> \o BMulSmallC(Tail(a), k, p \div Base)

BMulSmall(a, k) == BNorm(BMulSmallC(a, k, 0))

RECURSIVE BMulR(_, _)
BMulR(a, b) ==
    IF b = <<>> THEN <<>>
    ELSE BAdd(BMulSmallC(a, Head(b), 0), <<0>> \o BMulR(a, Tail(b)))

BMul(a, b) == BNorm(BMulR(a, b))

\* <<a \div k, a % k>> for 0 < k < Base
RECURSIVE BDivSmallR(_, _, _, _)
BDivSmallR(a, k, i, r) ==
    IF i = Len(a) + 1 THEN <<<<>>, r>>
    ELSE LET j    == Len(a) + 1 - i
             cur  == r * Base + a[j]
             rest == BDivSmallR(a, k, i + 1, cur % k)
         IN  <<Append(rest[1], cur \div k), rest[2]>>

BDivSmall(a, k) ==
    LET d == BDivSmallR(a, k, 1, 0) IN <<BNorm(d[1]), d[2]>>

Zeros(n) == [i \in 1..n |-> 0]

\* a * 2^n
BShl(a, n) ==
    IF a = <<>> THEN <<>>
    ELSE Zeros(n \div 15) \o BMulSmall(a, 2^(n % 15))

\* <<a \div 2^n, a % 2^n # 0>>: the limbs below limb d are dropped whole
\* (low says one of them is not 0) and the rest is divided by k = 2^(n % 15)
BShrQ(low, q) == <<q[1], low \/ q[2] # 0>>

BShrD(a, d, k) ==
    BShrQ(\E i \in 1..d : i <= Len(a) /\ a[i] # 0,
          BDivSmall(IF d >= Len(a) THEN <<>> ELSE SubSeq(a, d + 1, Len(a)), k))

BShr(a, n) == BShrD(a, n \div 15, 2^(n % 15))

SmallBitLen(x) == CHOOSE n \in 1..15 : 2^(n - 1) <= x /\ x < 2^n

BBitLen(a) == IF a = <<>> THEN 0 ELSE 15 * (Len(a) - 1) + SmallBitLen(a[Len(a)])

BFromInt(n) == BNorm(<<n % Base, n \div Base>>)

BToInt(a) ==
    IF a = <<>> THEN 0
    ELSE IF Len(a) = 1 THEN a[1]
    ELSE a[1] + Base * a[2]

BOdd(a) == a # <<>> /\ a[1] % 2 = 1

(***************************************************************************)
(* A Number: sg * m * 2^e with m = 0 or 2^52 <= m < 2^53 (no subnormals,   *)
(* infinities or NaN arise in the ranges used; -0 is identified with 0).   *)
(***************************************************************************)
FZero == [sg |-> 1, m |-> <<>>, e |-> 0]

\* The Number nearest to sg * (a + d) * 2^e, ties to even, where 0 <= d < 1
\* and sticky says d > 0 (only given with a of 55 bits or more).  An a of
\* L > 53 bits is cut to L - 52 bits (h), then to L - 53 bits and the bit
\* dropped last (q), and rounded up or not (r).
FRoundR(sg, r, e) ==
    IF BBitLen(r) = 54
    THEN [sg |-> sg, m |-> BDivSmall(r, 2)[1], e |-> e + 1]
    ELSE [sg |-> sg, m |-> r, e |-> e]

FRoundQ(sg, q, st, e) ==
    FRoundR(sg,
            IF q[2] = 1 /\ (st \/ BOdd(q[1])) THEN BAdd(q[1], <<1>>) ELSE q[1],
            e)

FRoundH(sg, h, sticky, e) == FRoundQ(sg, BDivSmall(h[1], 2), h[2] \/ sticky, e)

FRoundL(sg, a, e, sticky, L) ==
    IF L <= 53
    THEN [sg |-> sg, m |-> BShl(a, 53 - L), e |-> e - (53 - L)]
    ELSE FRoundH(sg, BShr(a, L - 54), sticky, e + (L - 53))

FRound(sg, a, e, sticky) ==
    IF a = <<>> THEN FZero ELSE FRoundL(sg, a, e, sticky, BBitLen(a))

FromInt(n) ==
    IF n = 0 THEN FZero
    ELSE FRound(IF n < 0 THEN -1 ELSE 1, BFromInt(IF n < 0 THEN -n ELSE n), 0, FALSE)

FNeg(x) == IF x.m = <<>> THEN x ELSE [x EXCEPT !.sg = -x.sg]

\* x * y
FMul(x, y) ==
    IF x.m = <<>> \/ y.m = <<>> THEN FZero
    ELSE FRound(x.sg * y.sg, BMul(x.m, y.m), x.e + y.e, FALSE)

\* x / k for an integer literal 0 < k < 2^10; d is <<quotient, remainder>>
\* of the significand, shifted left by 15 bits, divided by k
FDivQ(sg, d, e) == FRound(sg, d[1], e, d[2] # 0)

FDivInt(x, k) ==
    IF x.m = <<>> THEN FZero
    ELSE FDivQ(x.sg, BDivSmall(BShl(x.m, 15), k), x.e - 15)

\* x + y; ax and ay are the significands brought to the smaller exponent e
FAddA(sx, ax, sy, ay, e) ==
    IF sx = sy THEN FRound(sx, BAdd(ax, ay), e, FALSE)
    ELSE IF BCmp(ax, ay) = 0 THEN FZero
    ELSE FRound(IF BCmp(ax, ay) > 0 THEN sx ELSE sy,
                IF BCmp(ax, ay) > 0 THEN BSub(ax, ay) ELSE BSub(ay, ax),
                e, FALSE)

FAddE(x, y, e) == FAddA(x.sg, BShl(x.m, x.e - e), y.sg, BShl(y.m, y.e - e), e)

FAdd(x, y) ==
    IF x.m = <<>> THEN y
    ELSE IF y.m = <<>> THEN x
    ELSE FAddE(x, y, IF x.e < y.e THEN x.e ELSE y.e)

FSub(x, y) == FAdd(x, FNeg(y))

IsNegative(d) == d.m # <<>> /\ d.sg = -1

FLess(x, y) == IsNegative(FSub(x, y))

\* The Number a decimal literal n / scale denotes (scale 1, 100 or 1000)
FromDec(n, scale) == FDivInt(FromInt(n), scale)

\* Number.prototype.toFixed(f) as the integer n with x.toFixed(f) = n / 10^f:
\* the n nearest to x * 10^f, the larger in magnitude when two are as near.
ToFixedN(x, f) ==
    IF x.m = <<>> THEN 0
    ELSE LET a == BMulSmall(x.m, 10^f)
             n == IF x.e >= 0 THEN BToInt(BShl(a, x.e))
                  ELSE (BToInt(BShr(a, (-x.e) - 1)[1]) + 1) \div 2
         IN  x.sg * n

\* Math.round(x): floor(x + 0.5) of the exact value; for a negative x with
\* fraction bits, q1 is floor(2|x|) and sticky says 2|x| is not whole
MathRoundDown(q1, sticky) ==
    IF sticky /\ q1 % 2 = 1 THEN -((q1 + 1) \div 2) ELSE -(q1 \div 2)

MathRoundH(sg, h) ==
    IF sg = 1 THEN (BToInt(h[1]) + 1) \div 2
    ELSE MathRoundDown(BToInt(h[1]), h[2])

MathRound(x) ==
    IF x.m = <<>> THEN 0
    ELSE IF x.e >= 0 THEN x.sg * BToInt(BShl(x.m, x.e))
    ELSE MathRoundH(x.sg, BShr(x.m, (-x.e) - 1))

(***************************************************************************)
(* Calls and their outcomes.  A call either returns a value or throws.     *)
(* A monetary field parseFloat(x.toFixed(2)) is held as the integer n of   *)
(* hundredths with x.toFixed(2) = n / 100; the Number read back from the   *)
(* field is Field2(n).  quantity, rounded with toFixed(3), is held in      *)
(* thousandths and read back with Field3.                                  *)
(***************************************************************************)
Return(v) == [st |-> "returned", value |-> v]
Throw(msg) == [st |-> "threw", error |-> msg]

Field2(n) == FromDec(n, 100)
Field3(n) == FromDec(n, 1000)

\* GST_RATES with a fault: 9 is taken for a rate
GST_RATES_With9 == {0, 5, 9, 12, 18, 28}

GST_RATES == {0, 5, 12, 18, 28}

\* SplitGst with a fault: the intra-state branch does not halve the tax
SplitGst_NoHalf(totalGstAmount, isInterState) ==
    IF isInterState
    THEN [cgstAmount |-> FZero, sgstAmount |-> FZero, igstAmount |-> totalGstAmount]
    ELSE [cgstAmount |-> totalGstAmount, sgstAmount |-> totalGstAmount,
          igstAmount |-> FZero]

\* The split of the tax into IGST, or CGST and SGST in equal halves
SplitGst(totalGstAmount, isInterState) ==
    IF isInterState
    THEN [cgstAmount |-> FZero, sgstAmount |-> FZero, igstAmount |-> totalGstAmount]
    ELSE [cgstAmount |-> FDivInt(totalGstAmount, 2),
          sgstAmount |-> FDivInt(totalGstAmount, 2),
          igstAmount |-> FZero]

\* The local values of calculateGst before they are rounded for the result
GstTotalAmount(taxableAmount, split, cessAmount, totalTax) ==
    [cgstAmount |-> split.cgstAmount, sgstAmount |-> split.sgstAmount,
     igstAmount |-> split.igstAmount, cessAmount |-> cessAmount,
     totalTax |-> totalTax, totalAmount |-> FAdd(taxableAmount, totalTax)]

GstTotalTax(taxableAmount, split, cessAmount) ==
    GstTotalAmount(taxableAmount, split, cessAmount,
                   FAdd(FAdd(FAdd(split.cgstAmount, split.sgstAmount),
                             split.igstAmount), cessAmount))

GstAmounts(taxableAmount, gstRate, cessRate, isInterState) ==
    GstTotalTax(taxableAmount,
                SplitGst(FDivInt(FMul(taxableAmount, gstRate), 100), isInterState),
                FDivInt(FMul(taxableAmount, cessRate), 100))

\* GstCalculation with a fault: igst_rate is the GST rate within a state too
GstCalculation_IgstRate(taxableAmount, gstRate, cessRate, isInterState, a) ==
    [taxable_amount |-> ToFixedN(taxableAmount, 2),
     gst_rate       |-> gstRate,
     cgst_rate      |-> IF isInterState THEN FZero ELSE FDivInt(gstRate, 2),
     sgst_rate      |-> IF isInterState THEN FZero ELSE FDivInt(gstRate, 2),
     igst_rate      |-> gstRate,
     cess_rate      |-> cessRate,
     cgst_amount    |-> ToFixedN(a.cgstAmount, 2),
     sgst_amount    |-> ToFixedN(a.sgstAmount, 2),
     igst_amount    |-> ToFixedN(a.igstAmount, 2),
     cess_amount    |-> ToFixedN(a.cessAmount, 2),
     total_tax      |-> ToFixedN(a.totalTax, 2),
     total_amount   |-> ToFixedN(a.totalAmount, 2)]

\* The object calculateGst returns for the local values a
GstCalculation(taxableAmount, gstRate, cessRate, isInterState, a) ==
    [taxable_amount |-> ToFixedN(taxableAmount, 2),
     gst_rate       |-> gstRate,
     cgst_rate      |-> IF isInterState THEN FZero ELSE FDivInt(gstRate, 2),
     sgst_rate      |-> IF isInterState THEN FZero ELSE FDivInt(gstRate, 2),
     igst_rate      |-> IF isInterState THEN gstRate ELSE FZero,
     cess_rate      |-> cessRate,
     cgst_amount    |-> ToFixedN(a.cgstAmount, 2),
     sgst_amount    |-> ToFixedN(a.sgstAmount, 2),
     igst_amount    |-> ToFixedN(a.igstAmount, 2),
     cess_amount    |-> ToFixedN(a.cessAmount, 2),
     total_tax      |-> ToFixedN(a.totalTax, 2),
     total_amount   |-> ToFixedN(a.totalAmount, 2)]

calculateGst(taxableAmount, gstRate, cessRate, isInterState) ==
    IF gstRate \notin {FromInt(r) : r \in GST_RATES}
    THEN Throw("Invalid GST rate")
    ELSE Return(GstCalculation(taxableAmount, gstRate, cessRate, isInterState,
                    GstAmounts(taxableAmount, gstRate, cessRate, isInterState)))

\* The local values of calculateLineItem before they are rounded
LineTaxable(grossAmount, discountAmount) ==
    [grossAmount |-> grossAmount, discountAmount |-> discountAmount,
     taxableAmount |-> FSub(grossAmount, discountAmount)]

LineDiscount(grossAmount, discountPercent) ==
    LineTaxable(grossAmount, FDivInt(FMul(grossAmount, discountPercent), 100))

LineAmounts(quantity, unitPrice, discountPercent) ==
    LineDiscount(FMul(quantity, unitPrice), discountPercent)

\* The object calculateLineItem returns for the local values l and the
\* outcome of its call of calculateGst, whose throw it lets through
LineItem(quantity, unitPrice, discountPercent, l, gstCalculation) ==
    IF gstCalculation.st = "threw" THEN gstCalculation
    ELSE Return([quantity         |-> ToFixedN(quantity, 3),
                 unit_price       |-> ToFixedN(unitPrice, 2),
                 discount_percent |-> ToFixedN(discountPercent, 2),
                 discount_amount  |-> ToFixedN(l.discountAmount, 2),
                 taxable_amount   |-> ToFixedN(l.taxableAmount, 2),
                 gst_calculation  |-> gstCalculation.value,
                 line_total       |->
                     ToFixedN(Field2(gstCalculation.value.total_amount), 2)])

LineItemGst(quantity, unitPrice, discountPercent, gstRate, cessRate, isInterState, l) ==
    LineItem(quantity, unitPrice, discountPercent, l,
             calculateGst(l.taxableAmount, gstRate, cessRate, isInterState))

\* calculateLineItem with a fault: the discount check lets 100 and more through
calculateLineItem_OpenDiscount(quantity, unitPrice, discountPercent, gstRate, cessRate, isInterState) ==
    IF ~FLess(FZero, quantity) THEN Throw("Quantity must be greater than 0")
    ELSE IF FLess(unitPrice, FZero) THEN Throw("Unit price cannot be negative")
    ELSE IF FLess(discountPercent, FZero)
    THEN Throw("Discount percent must be between 0 and 100")
    ELSE LineItemGst(quantity, unitPrice, discountPercent, gstRate, cessRate,
                     isInterState,
                     LineAmounts(quantity, unitPrice, discountPercent))

calculateLineItem(quantity, unitPrice, discountPercent, gstRate, cessRate, isInterState) ==
    IF ~FLess(FZero, quantity) THEN Throw("Quantity must be greater than 0")
    ELSE IF FLess(unitPrice, FZero) THEN Throw("Unit price cannot be negative")
    ELSE IF FLess(discountPercent, FZero) \/ FLess(FromInt(100), discountPercent)
    THEN Throw("Discount percent must be between 0 and 100")
    ELSE LineItemGst(quantity, unitPrice, discountPercent, gstRate, cessRate,
                     isInterState,
                     LineAmounts(quantity, unitPrice, discountPercent))

\* FSum with a fault: the accumulator is overwritten, not added to
FSum_LastOnly(xs) == IF xs = <<>> THEN FZero ELSE xs[Len(xs)]

\* Array.prototype.reduce((sum, x) => sum + x, 0) over a sequence of Numbers
RECURSIVE FSum(_)
FSum(xs) ==
    IF xs = <<>> THEN FZero
    ELSE FAdd(FSum(SubSeq(xs, 1, Len(xs) - 1)), xs[Len(xs)])

\* RoundOff with a fault: the difference is taken the other way round
RoundOff_SignSlip(totalAmount, roundOff) ==
    IF roundOff
    THEN [finalAmount |-> FromInt(MathRound(totalAmount)),
          roundOffAmount |-> FSub(totalAmount, FromInt(MathRound(totalAmount)))]
    ELSE [finalAmount |-> totalAmount, roundOffAmount |-> FZero]

\* RoundOff with a fault: the total is rounded whatever roundOff says
RoundOff_Always(totalAmount, roundOff) ==
    [finalAmount |-> FromInt(MathRound(totalAmount)),
     roundOffAmount |-> FSub(FromInt(MathRound(totalAmount)), totalAmount)]

\* The round-off step of calculateInvoiceTotals
RoundOff(totalAmount, roundOff) ==
    IF roundOff
    THEN [finalAmount |-> FromInt(MathRound(totalAmount)),
          roundOffAmount |-> FSub(FromInt(MathRound(totalAmount)), totalAmount)]
    ELSE [finalAmount |-> totalAmount, roundOffAmount |-> FZero]

\* The sums calculateInvoiceTotals takes over the line items
InvoiceSums(lineItems) ==
    [subtotal      |-> FSum([i \in 1..Len(lineItems) |->
                          FMul(Field3(lineItems[i].quantity),
                               Field2(lineItems[i].unit_price))]),
     totalDiscount |-> FSum([i \in 1..Len(lineItems) |->
                          Field2(lineItems[i].discount_amount)]),
     taxableAmount |-> FSum([i \in 1..Len(lineItems) |->
                          Field2(lineItems[i].taxable_amount)]),
     cgstTotal     |-> FSum([i \in 1..Len(lineItems) |->
                          Field2(lineItems[i].gst_calculation.cgst_amount)]),
     sgstTotal     |-> FSum([i \in 1..Len(lineItems) |->
                          Field2(lineItems[i].gst_calculation.sgst_amount)]),
     igstTotal     |-> FSum([i \in 1..Len(lineItems) |->
                          Field2(lineItems[i].gst_calculation.igst_amount)]),
     cessTotal     |-> FSum([i \in 1..Len(lineItems) |->
                          Field2(lineItems[i].gst_calculation.cess_amount)])]

\* The local values of calculateInvoiceTotals before they are rounded
InvoiceRounding(s, totalTax, totalAmount, rounding) ==
    [subtotal |-> s.subtotal, totalDiscount |-> s.totalDiscount,
     taxableAmount |-> s.taxableAmount, cgstTotal |-> s.cgstTotal,
     sgstTotal |-> s.sgstTotal, igstTotal |-> s.igstTotal,
     cessTotal |-> s.cessTotal, totalTax |-> totalTax,
     totalAmount |-> totalAmount,
     roundOffAmount |-> rounding.roundOffAmount,
     finalAmount |-> rounding.finalAmount]

InvoiceTotalAmount(s, totalTax, totalAmount, roundOff) ==
    InvoiceRounding(s, totalTax, totalAmount, RoundOff(totalAmount, roundOff))

InvoiceTotalTax(s, totalTax, roundOff) ==
    InvoiceTotalAmount(s, totalTax, FAdd(s.taxableAmount, totalTax), roundOff)

InvoiceAmountsOf(s, roundOff) ==
    InvoiceTotalTax(s,
                    FAdd(FAdd(FAdd(s.cgstTotal, s.sgstTotal), s.igstTotal),
                         s.cessTotal),
                    roundOff)

InvoiceAmounts(lineItems, roundOff) ==
    InvoiceAmountsOf(InvoiceSums(lineItems), roundOff)

\* The object calculateInvoiceTotals returns for the local values a
InvoiceTotals(a) ==
    [subtotal       |-> ToFixedN(a.subtotal, 2),
     total_discount |-> ToFixedN(a.totalDiscount, 2),
     taxable_amount |-> ToFixedN(a.taxableAmount, 2),
     cgst_total     |-> ToFixedN(a.cgstTotal, 2),
     sgst_total     |-> ToFixedN(a.sgstTotal, 2),
     igst_total     |-> ToFixedN(a.igstTotal, 2),
     cess_total     |-> ToFixedN(a.cessTotal, 2),
     total_tax      |-> ToFixedN(a.totalTax, 2),
     total_amount   |-> ToFixedN(a.totalAmount, 2),
     round_off      |-> ToFixedN(a.roundOffAmount, 2),
     final_amount   |-> ToFixedN(a.finalAmount, 2)]

\* calculateInvoiceTotals with a fault: an empty list is totalled as well
calculateInvoiceTotals_NoCheck(lineItems, roundOff) ==
    Return(InvoiceTotals(InvoiceAmounts(lineItems, roundOff)))

calculateInvoiceTotals(lineItems, roundOff) ==
    IF Len(lineItems) = 0 THEN Throw("Invoice must have at least one line item")
    ELSE Return(InvoiceTotals(InvoiceAmounts(lineItems, roundOff)))

(***************************************************************************)
(* State.  The functions are pure, so a behaviour is one call: call holds  *)
(* the function and its arguments (each Number argument written as the     *)
(* integer n of the decimal literal n / 1000), ret its outcome (Pending    *)
(* until the function has run), and lineItems the line items the caller    *)
(* has calculated so far for the invoice it is totalling.  invoices is the *)
(* persisted list of issued invoice numbers, used where invoice numbers    *)
(* are generated one after the other.  The surroundings of the functions   *)
(* are now, the date new Date() gives, tasks, the position and the local   *)
(* values of each asynchronous caller, and invoked, the backend commands   *)
(* invoked so far with what they settled to.                               *)
(***************************************************************************)
VARIABLES call, ret, lineItems, invoices, now, tasks, invoked

vars == <<call, ret, lineItems, invoices, now, tasks, invoked>>

\* The surroundings, which a call with all its arguments leaves alone
env == <<now, tasks, invoked>>

Pending == [st |-> "pending"]

Today == [year |-> 2024, month |-> 1, day |-> 15]

\* No asynchronous caller and no backend command
Idle ==
    /\ now = Today
    /\ tasks = <<>>
    /\ invoked = <<>>

Arg(n) == FromDec(n, 1000)

Abs(x) == IF x < 0 THEN -x ELSE x

(***************************************************************************)
(* calculateGst and calculateLineItem, on arguments in thousandths.        *)
(***************************************************************************)
MaxTaxableMilli == 20

TaxableInputs ==
    (0..MaxTaxableMilli) \cup {90, 200, 300, 1500, 10100, 900000, 1000000, -1000}

RateInputs == {0, 5000, 12000, 18000, 28000, 9000, 18500, -5000}

CessInputs == {0, 1000, 2500, 15000}

QuantityInputs == {0, 333, 1000, 2000}

UnitPriceInputs == {-10, 0, 160, 3333, 500000}

DiscountInputs == {-1000, 0, 10000, 33330, 100000, 100001}

LineRateInputs == {5000, 18000, 9000}

LineCessInputs == {0, 15000}

GstCalls ==
    [fn : {"calculateGst"}, taxableAmount : TaxableInputs, gstRate : RateInputs,
     cessRate : CessInputs, isInterState : BOOLEAN]

LineItemCalls ==
    [fn : {"calculateLineItem"}, quantity : QuantityInputs,
     unitPrice : UnitPriceInputs, discountPercent : DiscountInputs,
     gstRate : LineRateInputs, cessRate : LineCessInputs, isInterState : BOOLEAN]

InitCalc ==
    /\ call \in GstCalls \cup LineItemCalls
    /\ ret = Pending
    /\ lineItems = <<>>
    /\ invoices = <<>>
    /\ Idle

CallCalculateGst ==
    /\ call.fn = "calculateGst"
    /\ ret.st = "pending"
    /\ ret' = calculateGst(Arg(call.taxableAmount), Arg(call.gstRate),
                           Arg(call.cessRate), call.isInterState)
    /\ UNCHANGED <<call, lineItems, invoices, env>>

LineItemOf(c) ==
    calculateLineItem(Arg(c.quantity), Arg(c.unitPrice), Arg(c.discountPercent),
                      Arg(c.gstRate), Arg(c.cessRate), c.isInterState)

CallCalculateLineItem ==
    /\ call.fn = "calculateLineItem"
    /\ ret.st = "pending"
    /\ ret' = LineItemOf(call)
    /\ UNCHANGED <<call, lineItems, invoices, env>>

NextCalc == CallCalculateGst \/ CallCalculateLineItem

SpecCalc == InitCalc /\ [][NextCalc]_vars

\* The GstCalculation the last call returned, directly or inside a line item
Returned == ret.st = "returned"

ReturnedGst == call.fn \in {"calculateGst", "calculateLineItem"} /\ Returned

Gst == IF call.fn = "calculateGst" THEN ret.value ELSE ret.value.gst_calculation

ComponentSum == Gst.cgst_amount + Gst.sgst_amount + Gst.igst_amount + Gst.cess_amount

\* taxableAmount * gstRate of a successful calculateGst call, in units of
\* 1/1000 of a hundredth (the accepted rates are whole numbers)
RateProduct == call.taxableAmount * (call.gstRate \div 1000)

C2_ComponentSum == ReturnedGst => Abs(ComponentSum - Gst.total_tax) <= 1

(***************************************************************************)
(* C3: in every GstCalculation calculateGst returns, also the one          *)
(* calculateLineItem embeds, total_amount = taxable_amount + total_tax.    *)
(***************************************************************************)
C3_TotalAmount == ReturnedGst => Gst.total_amount = Gst.taxable_amount + Gst.total_tax

(***************************************************************************)
(* calculateInvoiceTotals.  The caller calculates each line of the invoice *)
(* with calculateLineItem, collects the results and totals them.           *)
(***************************************************************************)
MaxLines == 2

\* gstRate, cessRate and isInterState of the invoice lines
LineModes == {<<5000, 0, FALSE>>, <<18000, 0, TRUE>>, <<0, -350000, FALSE>>}

\* quantity, unitPrice and mode: both quantities for the intra-state mode
LineChoices ==
    {c \in {1000, 2000} \X {160, 1000} \X LineModes :
        c[1] = 1000 \/ c[3] = <<5000, 0, FALSE>>}

InvoiceLineInputs ==
    {[fn |-> "calculateLineItem", quantity |-> c[1], unitPrice |-> c[2],
      discountPercent |-> 0, gstRate |-> c[3][1], cessRate |-> c[3][2],
      isInterState |-> c[3][3]] : c \in LineChoices}
    \cup {[fn |-> "calculateLineItem", quantity |-> 2000, unitPrice |-> 500000,
           discountPercent |-> 10000, gstRate |-> 18000, cessRate |-> 0,
           isInterState |-> FALSE],
          [fn |-> "calculateLineItem", quantity |-> 333, unitPrice |-> 1000,
           discountPercent |-> 0, gstRate |-> 5000, cessRate |-> 0,
           isInterState |-> FALSE],
          [fn |-> "calculateLineItem", quantity |-> 0, unitPrice |-> 1000,
           discountPercent |-> 0, gstRate |-> 5000, cessRate |-> 0,
           isInterState |-> FALSE]}

InvoiceCalls ==
    [fn : {"calculateInvoiceTotals"},
     lines : UNION {[1..n -> InvoiceLineInputs] : n \in 0..MaxLines},
     roundOff : BOOLEAN]

InitInvoice ==
    /\ call \in InvoiceCalls
    /\ ret = Pending
    /\ lineItems = <<>>
    /\ invoices = <<>>
    /\ Idle

\* The caller pushes the next calculated line; a throw ends the call
PushLineItem ==
    /\ call.fn = "calculateInvoiceTotals"
    /\ ret.st = "pending"
    /\ Len(lineItems) < Len(call.lines)
    /\ LET r == LineItemOf(call.lines[Len(lineItems) + 1])
       IN  IF r.st = "threw"
           THEN ret' = r /\ UNCHANGED lineItems
           ELSE lineItems' = Append(lineItems, r.value) /\ UNCHANGED ret
    /\ UNCHANGED <<call, invoices, env>>

CallCalculateInvoiceTotals ==
    /\ call.fn = "calculateInvoiceTotals"
    /\ ret.st = "pending"
    /\ Len(lineItems) = Len(call.lines)
    /\ ret' = calculateInvoiceTotals(lineItems, call.roundOff)
    /\ UNCHANGED <<call, lineItems, invoices, env>>

NextInvoice == PushLineItem \/ CallCalculateInvoiceTotals

SpecInvoice == InitInvoice /\ [][NextInvoice]_vars

ReturnedTotals == call.fn = "calculateInvoiceTotals" /\ Returned

\* The sum of a hundredths field over the line items
RECURSIVE SumInt(_)
SumInt(xs) == IF xs = <<>> THEN 0 ELSE Head(xs) + SumInt(Tail(xs))

\* The values calculateGst had for a line before it rounded them
UnroundedGst(c) ==
    GstAmounts(LineAmounts(Arg(c.quantity), Arg(c.unitPrice),
                           Arg(c.discountPercent)).taxableAmount,
               Arg(c.gstRate), Arg(c.cessRate), c.isInterState)

RoundedOnce(xs) == ToFixedN(FSum(xs), 2)

LineCount == Len(lineItems)

C5_FinalAmount ==
    (ReturnedTotals /\ call.roundOff) =>
        /\ ret.value.final_amount = ret.value.total_amount + ret.value.round_off
        /\ ret.value.final_amount % 100 = 0

\* A rounded invoice of two lines whose total was not whole
C5_Witness ==
    /\ ReturnedTotals /\ call.roundOff
    /\ LineCount = 2
    /\ ret.value.round_off # 0

(***************************************************************************)
(* C6: with roundOff = true, final_amount is total_amount rounded to the   *)
(* nearest whole unit, halves away from zero, also for negative totals,    *)
(* so that |round_off| <= 0.50 (a total of -2.50 gives -3).                *)
(***************************************************************************)
C6_HalfAwayFromZero ==
    (ReturnedTotals /\ call.roundOff) =>
        LET n == ret.value.total_amount
            halfAwayFromZero ==
                IF n >= 0 THEN 100 * ((n + 50) \div 100)
                ELSE -(100 * ((50 - n) \div 100))
        IN  /\ ret.value.final_amount = halfAwayFromZero
            /\ Abs(ret.value.round_off) <= 50

(***************************************************************************)
(* GSTIN functions.  A JavaScript string is the sequence of its            *)
(* characters; a value that may be null carries its type.                  *)
(***************************************************************************)
Str(chars) == [type |-> "string", chars |-> chars]

Null == [type |-> "null"]

\* JavaScript truthiness of a string-or-null value
Truthy(v) == v.type = "string" /\ v.chars # <<>>

DigitChars == <<"0", "1", "2", "3", "4", "5", "6", "7", "8", "9">>

UpperChars == <<"A", "B", "C", "D", "E", "F", "G", "H", "I", "J", "K", "L",
        "M", "N", "O", "P", "Q", "R", "S", "T", "U", "V", "W", "X", "Y", "Z">>

LowerChars == <<"a", "b", "c", "d", "e", "f", "g", "h", "i", "j", "k", "l",
        "m", "n", "o", "p", "q", "r", "s", "t", "u", "v", "w", "x", "y", "z">>

SpaceChars == {" ", "\t", "\n"}

\* String.prototype.indexOf for a single character: 0-based, -1 when absent
IndexOf(chars, c) ==
    IF \E i \in 1..Len(chars) : chars[i] = c
    THEN (CHOOSE i \in 1..Len(chars) :
            chars[i] = c /\ \A k \in 1..(i - 1) : chars[k] # c) - 1
    ELSE -1

IsDigit(c) == IndexOf(DigitChars, c) # -1

IsUpper(c) == IndexOf(UpperChars, c) # -1

\* replace(/\s/g, '')
RemoveSpaces(chars) ==
    LET NotSpace(c) == c \notin SpaceChars IN SelectSeq(chars, NotSpace)

ToUpperCase(chars) ==
    [i \in 1..Len(chars) |->
        IF IndexOf(LowerChars, chars[i]) # -1
        THEN UpperChars[IndexOf(LowerChars, chars[i]) + 1]
        ELSE chars[i]]

\* substring(from, to) with 0 <= from <= to, clamped to the length
Substring(chars, from, to) ==
    SubSeq(chars, from + 1, IF to < Len(chars) THEN to ELSE Len(chars))

STATE_CODES ==
    {<<DigitChars[a + 1], DigitChars[b + 1]>> :
        a \in 0..3, b \in 0..9} \ {<<"0", "0">>, <<"3", "9">>}

\* isInterStateTransaction with a fault: the EXPORT case is missing
isInterStateTransaction_NoExport(supplierGstin, customerGstin, customerType) ==
    IF customerType = "B2C" /\ ~Truthy(customerGstin) THEN FALSE
    ELSE IF /\ Truthy(customerGstin)
            /\ Len(supplierGstin.chars) >= 2
            /\ Len(customerGstin.chars) >= 2
         THEN Substring(supplierGstin.chars, 0, 2)
                 # Substring(customerGstin.chars, 0, 2)
         ELSE FALSE

isInterStateTransaction(supplierGstin, customerGstin, customerType) ==
    IF customerType = "EXPORT" THEN TRUE
    ELSE IF customerType = "B2C" /\ ~Truthy(customerGstin) THEN FALSE
    ELSE IF /\ Truthy(customerGstin)
            /\ Len(supplierGstin.chars) >= 2
            /\ Len(customerGstin.chars) >= 2
         THEN LET supplierStateCode == Substring(supplierGstin.chars, 0, 2)
                  customerStateCode == Substring(customerGstin.chars, 0, 2)
              IN  supplierStateCode # customerStateCode
         ELSE FALSE

codePointChars == DigitChars \o UpperChars

mod == 37

\* The loop of validateGstinChecksum from index i down to 0; -1 stands for
\* the early return on a character outside codePointChars
RECURSIVE ChecksumLoop(_, _, _, _)
ChecksumLoop(gstin, i, factor, sum) ==
    IF i < 0 THEN sum
    ELSE LET codePoint == IndexOf(codePointChars, gstin[i + 1])
             digit     == factor * codePoint
         IN  IF codePoint = -1 THEN -1
             ELSE ChecksumLoop(gstin, i - 1, IF factor = 2 THEN 1 ELSE 2,
                               sum + (digit \div mod) + (digit % mod))

\* validateGstinChecksum with a fault: the weights start at 1
validateGstinChecksum_FactorOne(gstin) ==
    LET sum == ChecksumLoop(gstin, Len(gstin) - 2, 1, 0)
    IN  /\ sum # -1
        /\ (mod - (sum % mod)) % mod = IndexOf(codePointChars, gstin[15])

\* validateGstinChecksum with a fault: mod - (sum % mod) is not reduced
validateGstinChecksum_NoWrap(gstin) ==
    LET sum == ChecksumLoop(gstin, Len(gstin) - 2, 2, 0)
    IN  /\ sum # -1
        /\ mod - (sum % mod) = IndexOf(codePointChars, gstin[15])

validateGstinChecksum(gstin) ==
    LET sum == ChecksumLoop(gstin, Len(gstin) - 2, 2, 0)
        calculatedCheckDigit == (mod - (sum % mod)) % mod
        providedCheckDigit   == IndexOf(codePointChars, gstin[15])
    IN  /\ sum # -1
        /\ calculatedCheckDigit = providedCheckDigit

IsAlnum(c) == IsDigit(c) \/ IsUpper(c)

\* /^[0-9]{2}[A-Z0-9]{10}[0-9][A-Z][A-Z0-9]$/
gstinPattern(chars) ==
    /\ Len(chars) = 15
    /\ \A i \in 1..2 : IsDigit(chars[i])
    /\ \A i \in 3..12 : IsAlnum(chars[i])
    /\ IsDigit(chars[13])
    /\ IsUpper(chars[14])
    /\ IsAlnum(chars[15])

\* /^[A-Z]{5}[0-9]{4}[A-Z]$/
panPattern(chars) ==
    /\ Len(chars) = 10
    /\ \A i \in 1..5 : IsUpper(chars[i])
    /\ \A i \in 6..9 : IsDigit(chars[i])
    /\ IsUpper(chars[10])

Invalid(msg) == [isValid |-> FALSE, error |-> msg]

\* validateGstin with a fault: the PAN is checked before the state code
validateGstin_PanFirst(gstin) ==
    IF ~Truthy(gstin) \/ gstin.type # "string"
    THEN Invalid("GSTIN is required")
    ELSE LET cleanGstin == ToUpperCase(RemoveSpaces(gstin.chars)) IN
    IF Len(cleanGstin) # 15
    THEN Invalid("GSTIN must be exactly 15 characters")
    ELSE IF ~gstinPattern(cleanGstin) THEN Invalid("Invalid GSTIN format")
    ELSE IF ~panPattern(Substring(cleanGstin, 2, 12))
    THEN Invalid("Invalid PAN format within GSTIN")
    ELSE IF Substring(cleanGstin, 0, 2) \notin STATE_CODES
    THEN Invalid("Invalid state code in GSTIN")
    ELSE IF ~validateGstinChecksum(cleanGstin)
    THEN Invalid("Invalid GSTIN checksum")
    ELSE [isValid |-> TRUE,
          stateCode |-> Substring(cleanGstin, 0, 2),
          panNumber |-> Substring(cleanGstin, 2, 12),
          entityNumber |-> Substring(cleanGstin, 12, 13),
          checkDigit |-> Substring(cleanGstin, 13, 15)]

validateGstin(gstin) ==
    IF ~Truthy(gstin) \/ gstin.type # "string"
    THEN Invalid("GSTIN is required")
    ELSE LET cleanGstin == ToUpperCase(RemoveSpaces(gstin.chars)) IN
    IF Len(cleanGstin) # 15
    THEN Invalid("GSTIN must be exactly 15 characters")
    ELSE IF ~gstinPattern(cleanGstin) THEN Invalid("Invalid GSTIN format")
    ELSE LET stateCode    == Substring(cleanGstin, 0, 2)
             panNumber    == Substring(cleanGstin, 2, 12)
             entityNumber == Substring(cleanGstin, 12, 13)
             checkDigit   == Substring(cleanGstin, 13, 15)
         IN
    IF stateCode \notin STATE_CODES
    THEN Invalid("Invalid state code in GSTIN")
    ELSE IF ~panPattern(panNumber)
    THEN Invalid("Invalid PAN format within GSTIN")
    ELSE IF ~validateGstinChecksum(cleanGstin)
    THEN Invalid("Invalid GSTIN checksum")
    ELSE [isValid |-> TRUE, stateCode |-> stateCode, panNumber |-> panNumber,
          entityNumber |-> entityNumber, checkDigit |-> checkDigit]

(***************************************************************************)
(* Inputs of the GSTIN functions.                                          *)
(***************************************************************************)
MaxSpaces == 2

\* The sample GSTIN of the testing guide and the variants it lists
SampleGstin == <<"2", "7", "A", "A", "P", "F", "U", "0", "9", "3", "9", "F",
        "1", "Z", "V">>

TooShortGstin == <<"2", "7", "A", "A", "P", "F", "U", "0", "9", "3", "9",
        "F", "1", "Z">>

TooLongGstin == <<"2", "7", "A", "A", "P", "F", "U", "0", "9", "3", "9", "F",
        "1", "Z", "V", "V">>

WrongCheckGstin == <<"2", "7", "A", "A", "P", "F", "U", "0", "9", "3", "9",
        "F", "1", "Z", "0">>

WrongFormatGstin == <<"I", "N", "V", "A", "L", "I", "D", "_", "G", "S", "T",
        "I", "N">>

StateInputs == {<<"2", "7">>, <<"0", "1">>, <<"3", "8">>, <<"0", "0">>,
        <<"3", "9">>, <<"9", "9">>}

PanInputs == {<<"A", "A", "P", "F", "U", "0", "9", "3", "9", "F">>, <<"A",
        "B", "C", "D", "E", "1", "2", "3", "4", "Z">>, <<"1", "2", "3", "4",
        "5", "6", "7", "8", "9", "0">>, <<"A", "A", "P", "F", "U", "0", "9",
        "3", "9", "1">>}

TailInputs == {<<"1", "Z">>, <<"9", "A">>, <<"A", "Z">>, <<"1", "1">>, <<"1",
        "_">>}

\* state code + PAN + entity number and the letter before the check character
Prefixes == {s \o p \o t : s \in StateInputs, p \in PanInputs,
        t \in TailInputs}

ComposedGstins ==
    {p \o <<c>> : p \in Prefixes,
                  c \in {codePointChars[i] : i \in 1..Len(codePointChars)}}

\* k spaces in front, and behind a tab for each of them
Spaced(chars, k) ==
    [i \in 1..k |-> " "] \o chars \o [i \in 1..k |-> "\t"]

SpacedGstins ==
    {Spaced(g, k) : g \in {SampleGstin, TooShortGstin, <<"2", "7", "a", "a",
        "p", "f", "u", "0", "9", "3", "9", "f", "1", "z", "2">>, <<>>},
                    k \in 0..MaxSpaces}

GstinStrings ==
    ComposedGstins \cup SpacedGstins
    \cup {SampleGstin, TooShortGstin, TooLongGstin, WrongCheckGstin,
          WrongFormatGstin, <<"2", "7", "A", "A", "P", "F", "U", "-", "9",
        "3", "9", "F", "1", "Z", "V">>, <<"2", "7", "a", "a", "p", "f", "u",
        "0", "9", "3", "9", "f", "1", "z", "v">>}

GstinCalls ==
    [fn : {"validateGstin"},
     gstin : {Str(g) : g \in GstinStrings} \cup {Null, [type |-> "number"]}]

\* GSTINs whose check character is the one validateGstinChecksum computes
AcceptedGstins ==
    {<<"2", "7", "A", "A", "P", "F", "U", "0", "9", "3", "9", "F", "1", "Z", "2">>,
     <<"2", "9", "A", "B", "C", "D", "E", "1", "2", "3", "4", "F", "1", "Z", "2">>,
     <<"0", "7", "A", "A", "P", "F", "U", "0", "9", "3", "9", "F", "1", "Z", "4">>}

\* The accepted GSTINs as they are and with a space in front
RawAcceptedGstins ==
    {Str(g) : g \in AcceptedGstins} \cup {Str(<<" ">> \o g) : g \in AcceptedGstins}

SupplierInputs ==
    RawAcceptedGstins \cup
    {Str(g) : g \in {<<>>, <<"2">>, <<"2", "7">>, <<"2", "9">>, SampleGstin,
        <<"2", "9", "A", "B", "C", "D", "E", "1", "2", "3", "4", "F", "1",
        "Z", "5">>}}

CustomerInputs ==
    {Null} \cup RawAcceptedGstins \cup
    {Str(g) : g \in {<<>>, <<"2">>, <<"2", "7">>, <<"2", "9">>, <<"2", "7",
        "A">>,
                     SampleGstin, <<"2", "9", "A", "B", "C", "D", "E", "1",
        "2", "3", "4", "F", "1", "Z", "5">>, <<"0", "7", "A", "A", "P", "F",
        "U", "0", "9", "3", "9", "F", "1", "Z", "V">>}}

InterStateCalls ==
    [fn : {"isInterStateTransaction"}, supplierGstin : SupplierInputs,
     customerGstin : CustomerInputs, customerType : {"B2B", "B2C", "EXPORT"}]

InitGstin ==
    /\ call \in GstinCalls \cup InterStateCalls
    /\ ret = Pending
    /\ lineItems = <<>>
    /\ invoices = <<>>
    /\ Idle

CallValidateGstin ==
    /\ call.fn = "validateGstin"
    /\ ret.st = "pending"
    /\ ret' = Return(validateGstin(call.gstin))
    /\ UNCHANGED <<call, lineItems, invoices, env>>

CallIsInterStateTransaction ==
    /\ call.fn = "isInterStateTransaction"
    /\ ret.st = "pending"
    /\ ret' = Return(isInterStateTransaction(call.supplierGstin,
                                             call.customerGstin,
                                             call.customerType))
    /\ UNCHANGED <<call, lineItems, invoices, env>>

NextGstin == CallValidateGstin \/ CallIsInterStateTransaction

SpecGstin == InitGstin /\ [][NextGstin]_vars

ReturnedInterState == call.fn = "isInterStateTransaction" /\ Returned

IsPresent(v) == v # Null /\ v # Str(<<>>)

FirstTwo(v) == <<v.chars[1], v.chars[2]>>

(***************************************************************************)
(* C7: isInterStateTransaction never raises and returns true for EXPORT;   *)
(* otherwise false for B2C without a customer GSTIN; otherwise, when the   *)
(* customer GSTIN is present and both identifiers have at least two        *)
(* characters, true iff their first two characters differ; otherwise       *)
(* false.                                                                  *)
(***************************************************************************)
C7_InterState ==
    (call.fn = "isInterStateTransaction" /\ ret.st # "pending") =>
        /\ ret.st = "returned"
        /\ ret.value \in BOOLEAN
        /\ ret.value =
             CASE call.customerType = "EXPORT" -> TRUE
               [] call.customerType = "B2C" /\ ~IsPresent(call.customerGstin)
                    -> FALSE
               [] OTHER ->
                    /\ IsPresent(call.customerGstin)
                    /\ Len(call.supplierGstin.chars) >= 2
                    /\ Len(call.customerGstin.chars) >= 2
                    /\ FirstTwo(call.supplierGstin)
                         # FirstTwo(call.customerGstin)

\* A B2B call with two full identifiers of different states returned true
C7_Witness ==
    /\ ReturnedInterState
    /\ call.customerType = "B2B"
    /\ IsPresent(call.customerGstin)
    /\ Len(call.supplierGstin.chars) = 15
    /\ Len(call.customerGstin.chars) = 15
    /\ ret.value = TRUE

ReturnedValidation == call.fn = "validateGstin" /\ Returned

IsString(v) == v.type = "string"

\* The characters of the input that are not white space, in upper case
Letters(v) ==
    LET kept == SelectSeq(v.chars, LAMBDA c : c \notin {" ", "\t", "\n"})
    IN  [i \in 1..Len(kept) |->
           IF \E k \in 1..26 : LowerChars[k] = kept[i]
           THEN UpperChars[CHOOSE k \in 1..26 : LowerChars[k] = kept[i]]
           ELSE kept[i]]

DigitSet == {DigitChars[i] : i \in 1..10}

UpperSet == {UpperChars[i] : i \in 1..26}

ViolatesRequired(v) == ~IsString(v) \/ v.chars = <<>>

ViolatesLength(g) == Len(g) # 15

ViolatesFormat(g) ==
    \E i \in 1..Len(g) :
        g[i] \notin (CASE i \in {1, 2, 13} -> DigitSet
                       [] i = 14 -> UpperSet
                       [] OTHER -> DigitSet \cup UpperSet)

ViolatesStateCode(g) ==
    ~\E n \in 1..38 :
        /\ Len(g) >= 2
        /\ g[1] = DigitChars[(n \div 10) + 1]
        /\ g[2] = DigitChars[(n % 10) + 1]

ViolatesPan(g) ==
    \/ Len(g) < 12
    \/ \E i \in 3..12 :
          g[i] \notin (IF i \in 8..11 THEN DigitSet ELSE UpperSet)

StructurallyValid(v) ==
    /\ ~ViolatesRequired(v)
    /\ ~ViolatesLength(Letters(v))
    /\ ~ViolatesFormat(Letters(v))
    /\ ~ViolatesStateCode(Letters(v))
    /\ ~ViolatesPan(Letters(v))

\* Position of a character in 0-9A-Z, counted from 0
AlphabetIndex(c) ==
    CHOOSE n \in 0..35 : (DigitChars \o UpperChars)[n + 1] = c

\* The check value of the first 14 characters: weights 2, 1, 2, 1, ...
\* from the 14th character down to the first
ExpectedCheckValue(g) ==
    LET d(k) == (IF (14 - k) % 2 = 0 THEN 2 ELSE 1) * AlphabetIndex(g[k])
        sum  == SumInt([k \in 1..14 |-> (d(k) \div 37) + (d(k) % 37)])
    IN  (37 - (sum % 37)) % 37

C9_SampleGstin ==
    ReturnedValidation =>
        /\ call.gstin = Str(SampleGstin) => ret.value.isValid
        /\ call.gstin \in {Str(TooShortGstin), Str(TooLongGstin),
                           Str(WrongCheckGstin), Str(WrongFormatGstin)}
             => ~ret.value.isValid

\* The error of the first check, in the documented order, the input fails
FirstViolation(v) ==
    CASE ViolatesRequired(v) -> "GSTIN is required"
      [] OTHER ->
           LET g == Letters(v)
           IN  CASE ViolatesLength(g) -> "GSTIN must be exactly 15 characters"
                 [] ViolatesFormat(g) -> "Invalid GSTIN format"
                 [] ViolatesStateCode(g) -> "Invalid state code in GSTIN"
                 [] ViolatesPan(g) -> "Invalid PAN format within GSTIN"
                 [] AlphabetIndex(g[15]) # ExpectedCheckValue(g)
                      -> "Invalid GSTIN checksum"
                 [] OTHER -> "none"

(***************************************************************************)
(* C10: validateGstin reports the first failing check in the order         *)
(* required, length, structural format, state code, PAN format, checksum:  *)
(* an input that violates several checks gets the error of the earliest.   *)
(***************************************************************************)
C10_FirstFailure ==
    ReturnedValidation =>
        IF FirstViolation(call.gstin) = "none"
        THEN ret.value.isValid
        ELSE ret.value = [isValid |-> FALSE,
                          error |-> FirstViolation(call.gstin)]

\* A 15-character input with an unknown state code and a malformed PAN
C10_Witness ==
    /\ ReturnedValidation
    /\ ~ViolatesRequired(call.gstin)
    /\ ~ViolatesLength(Letters(call.gstin))
    /\ ~ViolatesFormat(Letters(call.gstin))
    /\ ViolatesStateCode(Letters(call.gstin))
    /\ ViolatesPan(Letters(call.gstin))
    /\ ret.value.error = "Invalid state code in GSTIN"

(***************************************************************************)
(* C11: every result of validateGstin has one of two shapes: success with  *)
(* isValid = true, no error, a stateCode of 2 characters that is a key of  *)
(* STATE_CODES, a panNumber of 10 characters, an entityNumber of 1         *)
(* character and a checkDigit of 1 character; or failure with isValid =    *)
(* false, one error string and none of the parsed fields.                  *)
(***************************************************************************)
C11_ResultShape ==
    ReturnedValidation =>
        \/ /\ DOMAIN ret.value = {"isValid", "stateCode", "panNumber",
                                  "entityNumber", "checkDigit"}
           /\ ret.value.isValid = TRUE
           /\ Len(ret.value.stateCode) = 2
           /\ ret.value.stateCode \in STATE_CODES
           /\ Len(ret.value.panNumber) = 10
           /\ Len(ret.value.entityNumber) = 1
           /\ Len(ret.value.checkDigit) = 1
        \/ /\ DOMAIN ret.value = {"isValid", "error"}
           /\ ret.value.isValid = FALSE
           /\ ret.value.error \in STRING

(***************************************************************************)
(* validateHsnSac.                                                         *)
(***************************************************************************)
\* String.prototype.trim, which here stops after the leading white space
Trim_LeadingOnly(chars) ==
    IF \A i \in 1..Len(chars) : chars[i] \in SpaceChars THEN <<>>
    ELSE SubSeq(chars,
                CHOOSE i \in 1..Len(chars) :
                    /\ chars[i] \notin SpaceChars
                    /\ \A k \in 1..(i - 1) : chars[k] \in SpaceChars,
                Len(chars))

\* String.prototype.trim
Trim(chars) ==
    IF \A i \in 1..Len(chars) : chars[i] \in SpaceChars THEN <<>>
    ELSE SubSeq(chars,
                CHOOSE i \in 1..Len(chars) :
                    /\ chars[i] \notin SpaceChars
                    /\ \A k \in 1..(i - 1) : chars[k] \in SpaceChars,
                CHOOSE i \in 1..Len(chars) :
                    /\ chars[i] \notin SpaceChars
                    /\ \A k \in (i + 1)..Len(chars) : chars[k] \in SpaceChars)

\* /^\d{2,8}$/
hsnPattern(chars) ==
    /\ Len(chars) \in 2..8
    /\ \A i \in 1..Len(chars) : IsDigit(chars[i])

\* /^99\d{4}$/
sacPattern(chars) ==
    /\ Len(chars) = 6
    /\ chars[1] = "9" /\ chars[2] = "9"
    /\ \A i \in 3..6 : IsDigit(chars[i])

\* The branches of validateHsnSac on the trimmed code
HsnSacOf(cleanCode) ==
    IF hsnPattern(cleanCode)
    THEN IF Len(cleanCode) < 2 \/ Len(cleanCode) > 8
         THEN Invalid("HSN code must be 2-8 digits")
         ELSE [isValid |-> TRUE, type |-> "HSN",
               description |-> "HSN code for goods"]
    ELSE IF sacPattern(cleanCode)
    THEN [isValid |-> TRUE, type |-> "SAC",
          description |-> "SAC code for services"]
    ELSE Invalid("Invalid HSN/SAC format. HSN: 2-8 digits, SAC: 6 digits starting with 99")

validateHsnSac(code) ==
    IF ~Truthy(code) \/ code.type # "string"
    THEN Invalid("HSN/SAC code is required")
    ELSE HsnSacOf(Trim(code.chars))

MaxCodeLen == 9

\* Every run of the digits 0, 1 and 9 up to MaxCodeLen that repeats its
\* third digit, among them 99 followed by four digits
DigitRuns ==
    {[i \in 1..n |-> IF i <= 3 THEN p[i] ELSE p[3]] :
        n \in 0..MaxCodeLen, p \in [1..3 -> {"0", "1", "9"}]}

HsnSacStrings ==
    DigitRuns
    \cup {Spaced(g, k) : g \in {<<"1", "2", "3", "4">>,
                                <<"9", "9", "7", "2", "1", "2">>, <<"7">>},
                         k \in 0..MaxSpaces}
    \cup {<<"1", "2", " ", "3", "4">>, <<"1", "2", "A", "4">>,
          <<"9", "9", "7", "2", "1", "X">>, <<"-", "1", "2", "3">>,
          <<"1", "2", ".", "5">>, <<"H", "S", "N">>, <<" ">>, <<" ", "\t">>,
          <<"1", "2", "3">>, <<"1", "2", "3", "4", "5", "6">>,
          <<"1", "2", "3", "4", "5", "6", "7", "8">>,
          <<"1", "2", "3", "4", "5", "6", "7", "8", "9">>}

HsnSacCalls ==
    [fn : {"validateHsnSac"},
     code : {Str(g) : g \in HsnSacStrings} \cup {Null, [type |-> "number"]}]

InitHsnSac ==
    /\ call \in HsnSacCalls
    /\ ret = Pending
    /\ lineItems = <<>>
    /\ invoices = <<>>
    /\ Idle

CallValidateHsnSac ==
    /\ call.fn = "validateHsnSac"
    /\ ret.st = "pending"
    /\ ret' = Return(validateHsnSac(call.code))
    /\ UNCHANGED <<call, lineItems, invoices, env>>

NextHsnSac == CallValidateHsnSac

SpecHsnSac == InitHsnSac /\ [][NextHsnSac]_vars

ReturnedHsnSac == call.fn = "validateHsnSac" /\ Returned

\* The input is exactly six digits of which the first two are 99
IsSacCode(v) ==
    /\ IsString(v)
    /\ Len(v.chars) = 6
    /\ \A i \in 1..6 : v.chars[i] \in DigitSet
    /\ v.chars[1] = "9" /\ v.chars[2] = "9"

(***************************************************************************)
(* C12: validateHsnSac classifies every code of exactly 6 digits that      *)
(* begins with 99, such as 997212, as a valid SAC, and 1234 as a valid     *)
(* HSN.                                                                    *)
(***************************************************************************)
C12_SacClassified ==
    ReturnedHsnSac =>
        /\ IsSacCode(call.code) =>
             ret.value.isValid /\ ret.value.type = "SAC"
        /\ call.code = Str(<<"1", "2", "3", "4">>) =>
             ret.value.isValid /\ ret.value.type = "HSN"

\* The input is white space, then 2 to 8 decimal digits, then white space
IsPaddedDigits(chars) ==
    \E a \in 1..Len(chars) : \E b \in a..Len(chars) :
        /\ b - a + 1 \in 2..8
        /\ \A i \in a..b : chars[i] \in DigitSet
        /\ \A i \in (1..(a - 1)) \cup ((b + 1)..Len(chars)) :
              chars[i] \in {" ", "\t", "\n"}

RECURSIVE BFromDigits(_)
BFromDigits(digits) ==
    IF digits = <<>> THEN <<>>
    ELSE BAdd(BMulSmall(BFromDigits(SubSeq(digits, 1, Len(digits) - 1)), 10),
              BFromInt(IndexOf(DigitChars, digits[Len(digits)])))

\* parseInt of a run of decimal digits
parseInt(digits) == FRound(1, BFromDigits(digits), 0, FALSE)

\* The value of a Number that is a natural number
BFromNumber(x) ==
    IF x.m = <<>> THEN <<>>
    ELSE IF x.e >= 0 THEN BShl(x.m, x.e)
    ELSE BShr(x.m, -x.e)[1]

\* The decimal digits of a natural number, none for 0
RECURSIVE BToDigits(_)
BToDigitsQ(d) == Append(BToDigits(d[1]), DigitChars[d[2] + 1])

BToDigits(a) == IF a = <<>> THEN <<>> ELSE BToDigitsQ(BDivSmall(a, 10))

\* String(n) for a Number n that is a natural number
NumberToString(x) == IF x.m = <<>> THEN <<"0">> ELSE BToDigits(BFromNumber(x))

\* String(n) for a small natural number n
IntToString(n) == NumberToString(FromInt(n))

\* String.prototype.padStart(n, c)
PadStart(chars, n, c) ==
    IF Len(chars) >= n THEN chars
    ELSE [i \in 1..(n - Len(chars)) |-> c] \o chars

\* The group of lastNumber.match(/(\d+)$/), <<>> when there is no match
TrailingDigits(chars) ==
    IF chars = <<>> \/ ~IsDigit(chars[Len(chars)]) THEN <<>>
    ELSE SubSeq(chars,
                CHOOSE i \in 1..Len(chars) :
                    /\ \A k \in i..Len(chars) : IsDigit(chars[k])
                    /\ i = 1 \/ ~IsDigit(chars[i - 1]),
                Len(chars))

\* The index of the first occurrence of pat in chars, 0 when there is none
IndexOfSub(chars, pat) ==
    IF \E i \in 1..(Len(chars) - Len(pat) + 1) :
           SubSeq(chars, i, i + Len(pat) - 1) = pat
    THEN CHOOSE i \in 1..(Len(chars) - Len(pat) + 1) :
           /\ SubSeq(chars, i, i + Len(pat) - 1) = pat
           /\ \A k \in 1..(i - 1) : SubSeq(chars, k, k + Len(pat) - 1) # pat
    ELSE 0

\* chars with its Len characters from index i on replaced by rep
Splice(chars, i, len, rep) ==
    SubSeq(chars, 1, i - 1) \o rep \o SubSeq(chars, i + len, Len(chars))

\* String.prototype.replace(pat, rep) for a string pat: the first occurrence
Replace(chars, pat, rep) ==
    IF IndexOfSub(chars, pat) = 0 THEN chars
    ELSE Splice(chars, IndexOfSub(chars, pat), Len(pat), rep)

\* chars has a match of /\{(#+)\}/ at index i with n characters #
CounterAt(chars, i, n) ==
    /\ i + n + 1 <= Len(chars)
    /\ chars[i] = "{"
    /\ \A k \in 1..n : chars[i + k] = "#"
    /\ chars[i + n + 1] = "}"

\* invoiceNumber.match(/\{(#+)\}/): <<index, number of #>> of the leftmost
\* match, <<0, 0>> when there is none
counterMatch(chars) ==
    IF \E i \in 1..Len(chars) : \E n \in 1..Len(chars) : CounterAt(chars, i, n)
    THEN CHOOSE m \in (1..Len(chars)) \X (1..Len(chars)) :
           /\ CounterAt(chars, m[1], m[2])
           /\ \A k \in 1..(m[1] - 1) : \A n \in 1..Len(chars) :
                 ~CounterAt(chars, k, n)
    ELSE <<0, 0>>

\* counter: 1, or the trailing number of lastNumber plus 1
NextCounter(lastNumber) ==
    IF Truthy(lastNumber) /\ TrailingDigits(lastNumber.chars) # <<>>
    THEN FAdd(parseInt(TrailingDigits(lastNumber.chars)), FromInt(1))
    ELSE FromInt(1)

\* The format with its date placeholders replaced
DateReplaced(format, date) ==
    Replace(Replace(Replace(Replace(format,
        <<"{", "Y", "Y", "Y", "Y", "}">>, IntToString(date.year)),
        <<"{", "Y", "Y", "}">>,
            SubSeq(IntToString(date.year), Len(IntToString(date.year)) - 1,
                   Len(IntToString(date.year)))),
        <<"{", "M", "M", "}">>, PadStart(IntToString(date.month), 2, "0")),
        <<"{", "D", "D", "}">>, PadStart(IntToString(date.day), 2, "0"))

\* The counter placeholder m of invoiceNumber replaced by the counter
CounterReplaced(invoiceNumber, m, counter) ==
    IF m[1] = 0 THEN invoiceNumber
    ELSE Splice(invoiceNumber, m[1], m[2] + 2,
                PadStart(NumberToString(counter), m[2], "0"))

InvoiceNumberOf(invoiceNumber, counter) ==
    CounterReplaced(invoiceNumber, counterMatch(invoiceNumber), counter)

generateInvoiceNumber(format, lastNumber, date) ==
    InvoiceNumberOf(DateReplaced(format, date), NextCounter(lastNumber))

\* Formats with and without a counter placeholder, in the last place, in the
\* first place, and next to a date placeholder
DefaultFormat == <<"I", "N", "V", "-", "{", "Y", "Y", "Y", "Y", "}", "-", "{", "M", "M", "}", "-", "{", "#", "#", "#", "#", "}">>

FormatInputs ==
    {DefaultFormat,
     <<"I", "N", "V", "-", "{", "#", "#", "#", "#", "}">>,
     <<"{", "#", "#", "}">>,
     <<"N", "/", "{", "Y", "Y", "}", "/", "{", "D", "D", "}", "/", "{", "#", "}">>,
     <<"I", "N", "V", "-", "{", "Y", "Y", "Y", "Y", "}">>,
     <<"{", "#", "#", "#", "}", "-", "{", "Y", "Y", "}">>,
     <<"{", "#", "#", "}", "-", "X">>,
     <<"I", "N", "V", "{", "Y", "Y", "Y", "Y", "}", "{", "#", "#", "#", "}">>}

MaxLastCounter == 12

\* The numbers INV-0000 to INV-00nn the default-like formats end in
CounterNumbers ==
    {<<"I", "N", "V", "-">> \o PadStart(IntToString(n), 4, "0") :
        n \in 0..MaxLastCounter}

LastNumberInputs ==
    {Null, Str(<<>>)}
    \cup {Str(g) : g \in CounterNumbers}
    \cup {Str(g) : g \in {
          <<"I", "N", "V", "-", "2", "0", "2", "4", "-", "0", "1", "-", "0", "0", "0", "5">>,
          <<"I", "N", "V", "-", "9", "9", "9", "9">>,
          <<"I", "N", "V", "-", "1", "2", "A">>, <<"A", "B", "C">>,
          <<"9", "9">>,
          <<"I", "N", "V", "-", "9", "0", "0", "7", "1", "9", "9", "2", "5", "4", "7", "4", "0", "9", "9", "1">>,
          <<"I", "N", "V", "-", "9", "0", "0", "7", "1", "9", "9", "2", "5", "4", "7", "4", "0", "9", "9", "2">>,
          <<"I", "N", "V", "-", "9", "0", "0", "7", "1", "9", "9", "2", "5", "4", "7", "4", "0", "9", "9", "3">>}}

DateInputs ==
    {[year |-> 2024, month |-> 1, day |-> 15],
     [year |-> 2024, month |-> 2, day |-> 1],
     [year |-> 2025, month |-> 12, day |-> 31]}

NumberCalls ==
    [fn : {"generateInvoiceNumber"}, format : FormatInputs,
     lastNumber : LastNumberInputs, date : DateInputs]

InitNumber ==
    /\ call \in NumberCalls
    /\ ret = Pending
    /\ lineItems = <<>>
    /\ invoices = <<>>
    /\ Idle

CallGenerateInvoiceNumber ==
    /\ call.fn = "generateInvoiceNumber"
    /\ ret.st = "pending"
    /\ ret' = Return(generateInvoiceNumber(call.format, call.lastNumber,
                                           call.date))
    /\ UNCHANGED <<call, lineItems, invoices, env>>

NextNumber == CallGenerateInvoiceNumber

SpecNumber == InitNumber /\ [][NextNumber]_vars

ReturnedNumber == call.fn = "generateInvoiceNumber" /\ Returned

\* The digits at the end of chars, as many as there are
DigitsAtEnd(chars) ==
    LET n == CHOOSE n \in 0..Len(chars) :
               /\ \A i \in (Len(chars) - n + 1)..Len(chars) : chars[i] \in DigitSet
               /\ n = Len(chars) \/ chars[Len(chars) - n] \notin DigitSet
    IN  SubSeq(chars, Len(chars) - n + 1, Len(chars))

\* The numeral of the number after the one digits denotes, by carrying
\* over its nines at the end, without leading zeros
Successor(digits) ==
    LET n     == Len(digits)
        nines == CHOOSE k \in 0..n :
                   /\ \A i \in (n - k + 1)..n : digits[i] = "9"
                   /\ k = n \/ digits[n - k] # "9"
        zeros == [i \in 1..nines |-> "0"]
        next  == IF nines = n THEN <<"1">> \o zeros
                 ELSE SubSeq(digits, 1, n - nines - 1)
                      \o <<DigitChars[IndexOf(DigitChars, digits[n - nines]) + 2]>>
                      \o zeros
        lead  == CHOOSE k \in 0..(Len(next) - 1) :
                   /\ \A i \in 1..k : next[i] = "0"
                   /\ next[k + 1] # "0"
    IN  SubSeq(next, lead + 1, Len(next))

\* The counter the call has to use, as a numeral
ExpectedCounter(lastNumber) ==
    IF lastNumber = Null \/ DigitsAtEnd(lastNumber.chars) = <<>> THEN <<"1">>
    ELSE Successor(DigitsAtEnd(lastNumber.chars))

\* digits padded with zeros on the left to at least width characters
ZeroPadded(digits, width) ==
    IF Len(digits) >= width THEN digits
    ELSE [i \in 1..(width - Len(digits)) |-> "0"] \o digits

(***************************************************************************)
(* C15: generateInvoiceNumber takes as counter the number of the maximal   *)
(* run of digits at the end of lastNumber plus 1, or 1 when lastNumber is  *)
(* absent or does not end in a digit; it replaces the date placeholders    *)
(* and then the counter placeholder by the counter, padded with zeros to   *)
(* the number of # and never cut.  The format INV-{YYYY}-{MM}-{####} with  *)
(* last number INV-2024-01-0005 gives INV-2024-02-0006 in February 2024.   *)
(***************************************************************************)
C15_NextNumber ==
    ReturnedNumber =>
        LET dated == DateReplaced(call.format, call.date)
            m     == counterMatch(dated)
        IN  /\ ret.value =
                 IF m[1] = 0 THEN dated
                 ELSE SubSeq(dated, 1, m[1] - 1)
                      \o ZeroPadded(ExpectedCounter(call.lastNumber), m[2])
                      \o SubSeq(dated, m[1] + m[2] + 2, Len(dated))
            /\ ( /\ call.format = DefaultFormat
                 /\ call.lastNumber = Str(<<"I", "N", "V", "-", "2", "0", "2", "4", "-", "0", "1", "-", "0", "0", "0", "5">>)
                 /\ call.date = [year |-> 2024, month |-> 2, day |-> 1] )
               => ret.value = <<"I", "N", "V", "-", "2", "0", "2", "4", "-", "0", "2", "-", "0", "0", "0", "6">>


\* ---- Invoice numbers issued one after the other ----

MaxInvoices == 4

\* Formats that contain a counter placeholder
CounterFormats == {f \in FormatInputs : counterMatch(f)[1] # 0}

\* Formats whose last characters are the counter placeholder
EndingFormats ==
    {f \in CounterFormats :
        counterMatch(f)[1] + counterMatch(f)[2] + 1 = Len(f)}

\* date a is not after date b
DateLeq(a, b) ==
    \/ a.year < b.year
    \/ a.year = b.year /\ a.month < b.month
    \/ a.year = b.year /\ a.month = b.month /\ a.day <= b.day

\* The last number issued, null before the first
LastIssued(issued) ==
    IF issued = <<>> THEN Null ELSE Str(issued[Len(issued)].number)

\* The number generated after lastNumber, with the counter used for it
Issued(format, lastNumber, date) ==
    [number  |-> generateInvoiceNumber(format, lastNumber, date),
     counter |-> NumberToString(NextCounter(lastNumber))]

IssueCalls ==
    [fn : {"generateInvoiceNumber"}, format : CounterFormats,
     lastNumber : {Null}, date : DateInputs]

InitSequence ==
    /\ call \in IssueCalls
    /\ ret = Pending
    /\ lineItems = <<>>
    /\ invoices = <<>>
    /\ Idle

\* The caller generates the next number from the last one it issued, on the
\* same or a later date, and keeps it
IssueInvoice ==
    /\ Len(invoices) < MaxInvoices
    /\ \E d \in DateInputs :
        /\ invoices = <<>> => d = call.date
        /\ DateLeq(call.date, d)
        /\ call' = [call EXCEPT !.lastNumber = LastIssued(invoices),
                                !.date = d]
        /\ invoices' = Append(invoices,
                              Issued(call.format, LastIssued(invoices), d))
    /\ ret' = Return(invoices'[Len(invoices')].number)
    /\ UNCHANGED <<lineItems, env>>

NextSequence == IssueInvoice

SpecSequence == InitSequence /\ [][NextSequence]_vars

(***************************************************************************)
(* C14: for every format with a counter placeholder, starting without a    *)
(* last number and giving each generated number as lastNumber of the next  *)
(* call, on the same or a later date, the counters are 1, 2, 3, ... and    *)
(* the generated numbers are pairwise distinct.                            *)
(***************************************************************************)
C14_Sequential ==
    /\ \A i \in 1..Len(invoices) : invoices[i].counter = IntToString(i)
    /\ \A i, j \in 1..Len(invoices) :
         i < j => invoices[i].number # invoices[j].number

\* ---- Invoices created by concurrent creators ----

MaxCreators == 2

Creators == 1..MaxCreators

CreateCalls ==
    [fn : {"generateInvoiceNumber"}, format : EndingFormats,
     lastNumber : {Null}, date : DateInputs]

InitCreators ==
    /\ call \in CreateCalls
    /\ ret = Pending
    /\ lineItems = <<>>
    /\ invoices = <<>>
    /\ Idle

\* The invoice creator p adds, with the number generated from issued
Created(p, format, issued, date) ==
    [creator |-> p,
     number  |-> generateInvoiceNumber(format, LastIssued(issued), date),
     counter |-> NumberToString(NextCounter(LastIssued(issued)))]

\* One creation: read the last number, generate the next, persist it, as
\* one step no other creator interleaves with
CreateInvoice(p) ==
    /\ Len(invoices) < MaxInvoices
    /\ \E d \in DateInputs :
        /\ DateLeq(call.date, d)
        /\ call' = [call EXCEPT !.lastNumber = LastIssued(invoices),
                                !.date = d]
        /\ invoices' = Append(invoices, Created(p, call.format, invoices, d))
    /\ ret' = Return(invoices'[Len(invoices')].number)
    /\ UNCHANGED <<lineItems, env>>

NextCreators == \E p \in Creators : CreateInvoice(p)

SpecCreators == InitCreators /\ [][NextCreators]_vars

(***************************************************************************)
(* C16: when every creation reads the last number, generates the next and  *)
(* persists it in one atomic step, with a format that ends in the counter   *)
(* placeholder, then whatever the order of the creators no two persisted    *)
(* numbers are equal and the persisted counters are consecutive.            *)
(***************************************************************************)
C16_AtomicCreation ==
    /\ \A i, j \in 1..Len(invoices) :
         i < j => invoices[i].number # invoices[j].number
    /\ \A i \in 1..(Len(invoices) - 1) :
         invoices[i + 1].counter = Successor(invoices[i].counter)

\* ---- The fields of a returned line item ----

ReturnedLineItem == call.fn = "calculateLineItem" /\ Returned

(***************************************************************************)
(* C17: the fields of every LineItemCalculation calculateLineItem returns  *)
(* satisfy taxable_amount = quantity * unit_price - discount_amount and    *)
(* line_total = gst_calculation.total_amount.  quantity is in thousandths  *)
(* and the amounts are in hundredths, so both sides are compared in units  *)
(* of 0.00001.                                                             *)
(***************************************************************************)
C17_LineItemFields ==
    ReturnedLineItem =>
        /\ ret.value.taxable_amount * 1000 =
             ret.value.quantity * ret.value.unit_price
               - ret.value.discount_amount * 1000
        /\ ret.value.line_total = ret.value.gst_calculation.total_amount

\* ---- The GST rates calculateGst accepts ----

\* The legal rates, in the thousandths the calls give their arguments in
LegalRateArgs == {0, 5000, 12000, 18000, 28000}

GstFields ==
    {"taxable_amount", "gst_rate", "cgst_rate", "sgst_rate", "igst_rate",
     "cess_rate", "cgst_amount", "sgst_amount", "igst_amount", "cess_amount",
     "total_tax", "total_amount"}

GstAmountFields ==
    {"taxable_amount", "cgst_amount", "sgst_amount", "igst_amount",
     "cess_amount", "total_tax", "total_amount"}

(***************************************************************************)
(* C18: calculateGst throws and returns no GstCalculation for every        *)
(* gstRate outside {0, 5, 12, 18, 28}, such as 9, 18.5 and -5, and returns *)
(* a GstCalculation with all its fields for each of the five legal rates.  *)
(***************************************************************************)
C18_RateCheck ==
    (call.fn = "calculateGst" /\ ret.st # "pending") =>
        IF call.gstRate \in LegalRateArgs
        THEN /\ ret.st = "returned"
             /\ DOMAIN ret.value = GstFields
             /\ \A f \in GstAmountFields : ret.value[f] \in Int
             /\ ret.value.gst_rate = Arg(call.gstRate)
             /\ ret.value.cess_rate = Arg(call.cessRate)
        ELSE /\ ret.st = "threw"
             /\ "value" \notin DOMAIN ret
             /\ ret.error = "Invalid GST rate"

C18_Witness ==
    /\ call.fn = "calculateGst"
    /\ call.gstRate = 18500
    /\ ret.st = "threw"

\* ---- The checks of calculateLineItem ----

\* The messages of the three checks of the arguments
LineItemErrors ==
    {"Quantity must be greater than 0", "Unit price cannot be negative",
     "Discount percent must be between 0 and 100"}

\* An argument of the call, given in thousandths, is out of its range
OutOfRange(c) ==
    \/ c.quantity <= 0
    \/ c.unitPrice < 0
    \/ c.discountPercent < 0
    \/ c.discountPercent > 100000

(***************************************************************************)
(* C19: calculateLineItem throws and returns nothing when quantity <= 0,   *)
(* unitPrice < 0, discountPercent < 0 or discountPercent > 100; it accepts *)
(* unitPrice = 0, discountPercent = 0 and discountPercent = 100; and an    *)
(* illegal gstRate is reported only when these three checks have passed.   *)
(***************************************************************************)
C19_LineItemChecks ==
    (call.fn = "calculateLineItem" /\ ret.st # "pending") =>
        IF OutOfRange(call)
        THEN /\ ret.st = "threw"
             /\ "value" \notin DOMAIN ret
             /\ ret.error \in LineItemErrors
        ELSE IF call.gstRate \in LegalRateArgs
        THEN ret.st = "returned"
        ELSE ret.st = "threw" /\ ret.error = "Invalid GST rate"

\* A discount just above 100 with an illegal rate: the discount is reported
C19_Witness ==
    /\ call.fn = "calculateLineItem"
    /\ call.quantity > 0 /\ call.unitPrice = 0
    /\ call.discountPercent = 100001
    /\ call.gstRate = 9000
    /\ ret.st = "threw"
    /\ ret.error = "Discount percent must be between 0 and 100"

\* ---- The check of calculateInvoiceTotals ----

TotalsFields ==
    {"subtotal", "total_discount", "taxable_amount", "cgst_total",
     "sgst_total", "igst_total", "cess_total", "total_tax", "total_amount",
     "round_off", "final_amount"}

\* calculateInvoiceTotals has been called: every line of the call was
\* calculated, none threw, and the call has ended
TotalsCalled ==
    /\ call.fn = "calculateInvoiceTotals"
    /\ Len(lineItems) = Len(call.lines)
    /\ ret.st # "pending"

(***************************************************************************)
(* C20: calculateInvoiceTotals throws for an empty list of line items,     *)
(* whether roundOff is true or false, and returns the totals for every     *)
(* list that is not empty.                                                 *)
(***************************************************************************)
C20_EmptyInvoice ==
    TotalsCalled =>
        IF lineItems = <<>>
        THEN /\ ret.st = "threw"
             /\ "value" \notin DOMAIN ret
             /\ ret.error = "Invoice must have at least one line item"
        ELSE /\ ret.st = "returned"
             /\ DOMAIN ret.value = TotalsFields
             /\ \A f \in TotalsFields : ret.value[f] \in Int

C20_Witness ==
    /\ TotalsCalled
    /\ lineItems = <<>>
    /\ call.roundOff
    /\ ret.st = "threw"

\* ---- calculateInvoiceTotals without round-off ----

\* The fields of the totals that roundOff has no part in
UnroundedFields == TotalsFields \ {"round_off", "final_amount"}

\* The totals of the same line items with roundOff = true
RoundedTotals == calculateInvoiceTotals(lineItems, TRUE).value

(***************************************************************************)
(* C21: with roundOff = false calculateInvoiceTotals returns round_off = 0 *)
(* and final_amount = total_amount for every list of line items that is    *)
(* not empty, and every other field it returns is the one returned with    *)
(* roundOff = true.                                                        *)
(***************************************************************************)
C21_NoRoundOff ==
    (TotalsCalled /\ lineItems # <<>> /\ ~call.roundOff) =>
        /\ ret.st = "returned"
        /\ ret.value.round_off = 0
        /\ ret.value.final_amount = ret.value.total_amount
        /\ \A f \in UnroundedFields : ret.value[f] = RoundedTotals[f]

\* Totals without round-off whose total is not a whole number of rupees
C21_Witness ==
    /\ TotalsCalled /\ lineItems # <<>> /\ ~call.roundOff
    /\ ret.st = "returned"
    /\ ret.value.total_amount % 100 # 0
    /\ RoundedTotals.final_amount # ret.value.final_amount

(***************************************************************************)
(* amountToWords.  The words are sequences of characters, as the strings   *)
(* of validateGstin are; ones and tens are indexed from 1, so ones[n + 1]  *)
(* is the ones[n] of the code.                                             *)
(***************************************************************************)
ones ==
    <<<<>>, <<"o", "n", "e">>, <<"t", "w", "o">>, <<"t", "h", "r", "e", "e">>,
      <<"f", "o", "u", "r">>, <<"f", "i", "v", "e">>, <<"s", "i", "x">>,
      <<"s", "e", "v", "e", "n">>, <<"e", "i", "g", "h", "t">>,
      <<"n", "i", "n", "e">>, <<"t", "e", "n">>,
      <<"e", "l", "e", "v", "e", "n">>, <<"t", "w", "e", "l", "v", "e">>,
      <<"t", "h", "i", "r", "t", "e", "e", "n">>,
      <<"f", "o", "u", "r", "t", "e", "e", "n">>,
      <<"f", "i", "f", "t", "e", "e", "n">>,
      <<"s", "i", "x", "t", "e", "e", "n">>,
      <<"s", "e", "v", "e", "n", "t", "e", "e", "n">>,
      <<"e", "i", "g", "h", "t", "e", "e", "n">>,
      <<"n", "i", "n", "e", "t", "e", "e", "n">>>>

tens ==
    <<<<>>, <<>>, <<"t", "w", "e", "n", "t", "y">>,
      <<"t", "h", "i", "r", "t", "y">>, <<"f", "o", "r", "t", "y">>,
      <<"f", "i", "f", "t", "y">>, <<"s", "i", "x", "t", "y">>,
      <<"s", "e", "v", "e", "n", "t", "y">>, <<"e", "i", "g", "h", "t", "y">>,
      <<"n", "i", "n", "e", "t", "y">>>>

\* Math.floor(x) for a Number x >= 0
MathFloor(x) ==
    IF x.m = <<>> THEN 0
    ELSE IF x.e >= 0 THEN BToInt(BShl(x.m, x.e))
    ELSE BToInt(BShr(x.m, -x.e)[1])

\* Math.abs(x)
MathAbs(x) == IF IsNegative(x) THEN FNeg(x) ELSE x

RECURSIVE convertBelow1000(_)
convertBelow1000(num) ==
    IF num = 0 THEN <<>>
    ELSE IF num < 20 THEN ones[num + 1]
    ELSE IF num < 100
    THEN tens[(num \div 10) + 1]
         \o (IF num % 10 # 0 THEN <<" ">> \o ones[(num % 10) + 1] ELSE <<>>)
    ELSE ones[(num \div 100) + 1] \o <<" ", "h", "u", "n", "d", "r", "e", "d">>
         \o (IF num % 100 # 0 THEN <<" ">> \o convertBelow1000(num % 100)
             ELSE <<>>)

convertAmount(num) ==
    IF num = 0 THEN <<"z", "e", "r", "o">>
    ELSE Trim(
        (IF num \div 10000000 > 0
         THEN convertBelow1000(num \div 10000000) \o <<" ", "c", "r", "o", "r", "e", " ">>
         ELSE <<>>)
        \o (IF (num % 10000000) \div 100000 > 0
            THEN convertBelow1000((num % 10000000) \div 100000) \o <<" ", "l", "a", "k", "h", " ">>
            ELSE <<>>)
        \o (IF (num % 100000) \div 1000 > 0
            THEN convertBelow1000((num % 100000) \div 1000) \o <<" ", "t", "h", "o", "u", "s", "a", "n", "d", " ">>
            ELSE <<>>)
        \o (IF num % 1000 > 0 THEN convertBelow1000(num % 1000) ELSE <<>>))

\* The string amountToWords builds from the sign, the rupees and the paise
AmountWords(negative, rupees, paise) ==
    (IF rupees = 0 /\ paise = 0 THEN <<"z", "e", "r", "o", " ", "r", "u", "p", "e", "e", "s">>
     ELSE (IF negative THEN <<"m", "i", "n", "u", "s", " ">> ELSE <<>>)
          \o (IF rupees > 0
              THEN convertAmount(rupees) \o <<" ", "r", "u", "p", "e", "e">>
                   \o (IF rupees # 1 THEN <<"s">> ELSE <<>>)
              ELSE <<>>)
          \o (IF paise > 0
              THEN (IF rupees > 0 THEN <<" ", "a", "n", "d", " ">> ELSE <<>>)
                   \o convertAmount(paise) \o <<" ", "p", "a", "i", "s", "e">>
              ELSE <<>>))
    \o <<" ", "o", "n", "l", "y">>

\* paise, from the absolute amount and its rupees
AmountPaise(abs, rupees) ==
    MathRound(FMul(FSub(abs, FromInt(rupees)), FromInt(100)))

AmountRupees(negative, abs, rupees) ==
    AmountWords(negative, rupees, AmountPaise(abs, rupees))

amountToWords(amount) ==
    AmountRupees(IsNegative(amount), MathAbs(amount), MathFloor(MathAbs(amount)))


\* ---- Calls of amountToWords ----

MaxAmountMilli == 120

\* Amounts in thousandths: the small ones, those around 1 and 2 rupees and
\* some with lakhs, a sign or half a paisa
MilliAmounts ==
    (0..MaxAmountMilli) \cup (985..1010) \cup (1990..2000)
    \cup {-1999, -1500, -4, 21450, 100005, 123456789, 999994, 999995}

\* Amounts in whole rupees
RupeeAmounts == {1, 2, 19, 100, 1001, 100000, 10000000, 123456789}

WordsCalls ==
    [fn : {"amountToWords"}, amount : MilliAmounts, scale : {1000}]
    \cup [fn : {"amountToWords"}, amount : RupeeAmounts, scale : {1}]

InitWords ==
    /\ call \in WordsCalls
    /\ ret = Pending
    /\ lineItems = <<>>
    /\ invoices = <<>>
    /\ Idle

CallAmountToWords ==
    /\ call.fn = "amountToWords"
    /\ ret.st = "pending"
    /\ ret' = Return(amountToWords(FromDec(call.amount, call.scale)))
    /\ UNCHANGED <<call, lineItems, invoices, env>>

NextWords == CallAmountToWords

SpecWords == InitWords /\ [][NextWords]_vars

ReturnedWords == call.fn = "amountToWords" /\ Returned

\* chars ends with the characters of suffix
EndsWith(chars, suffix) ==
    /\ Len(chars) >= Len(suffix)
    /\ SubSeq(chars, Len(chars) - Len(suffix) + 1, Len(chars)) = suffix

\* What is in front of the last n characters of chars
Before(chars, n) == SubSeq(chars, 1, Len(chars) - n)

\* The endings that spell 1 to 99 paise
PaiseEndings == {convertBelow1000(n) \o <<" ", "p", "a", "i", "s", "e", " ", "o", "n", "l", "y">> : n \in 1..99}

\* The paise of words, if any, are 1 to 99 and follow the rupees or the sign
PaiseBelow100(words) ==
    EndsWith(words, <<" ", "p", "a", "i", "s", "e", " ", "o", "n", "l", "y">>) =>
        \E w \in PaiseEndings :
            /\ EndsWith(words, w)
            /\ \/ Before(words, Len(w)) \in {<<>>, <<"m", "i", "n", "u", "s", " ">>}
               \/ EndsWith(Before(words, Len(w)), <<" ", "a", "n", "d", " ">>)

(***************************************************************************)
(* C22: the paise amountToWords spells are a number from 0 to 99, so the   *)
(* rounded paise never reach 100 and 1.999 is not rendered as one rupee    *)
(* and one hundred paise only; 0 is rendered as zero rupees only and       *)
(* exactly 1 rupee with the singular rupee.                                *)
(***************************************************************************)
C22_PaiseBelow100 ==
    ReturnedWords =>
        /\ PaiseBelow100(ret.value)
        /\ call.amount = 0 => ret.value = <<"z", "e", "r", "o", " ", "r", "u", "p", "e", "e", "s", " ", "o", "n", "l", "y">>
        /\ call.amount = call.scale => ret.value = <<"o", "n", "e", " ", "r", "u", "p", "e", "e", " ", "o", "n", "l", "y">>


(***************************************************************************)
(* The operations called again.  A call is made, the date of the           *)
(* surroundings may move on, and the same call is made once more.          *)
(***************************************************************************)

\* An argument left out, for which the parameter takes its default value
Omitted == [type |-> "undefined"]

\* generateInvoiceNumber with the default values of its parameters; today is
\* what new Date() gives when the call is made
generateInvoiceNumberDefaults(format, lastNumber, date, today) ==
    generateInvoiceNumber(IF format = Omitted THEN DefaultFormat ELSE format,
                          IF lastNumber = Omitted THEN Null ELSE lastNumber,
                          IF date = Omitted THEN today ELSE date)

\* What the call c does when it is made on the date today
Outcome(c, today) ==
    CASE c.fn = "calculateGst" ->
            calculateGst(Arg(c.taxableAmount), Arg(c.gstRate), Arg(c.cessRate),
                         c.isInterState)
      [] c.fn = "calculateLineItem" -> LineItemOf(c)
      [] c.fn = "validateGstin" -> Return(validateGstin(c.gstin))
      [] c.fn = "isInterStateTransaction" ->
            Return(isInterStateTransaction(c.supplierGstin, c.customerGstin,
                                           c.customerType))
      [] c.fn = "validateHsnSac" -> Return(validateHsnSac(c.code))
      [] c.fn = "amountToWords" ->
            Return(amountToWords(FromDec(c.amount, c.scale)))
      [] c.fn = "generateInvoiceNumber" ->
            Return(generateInvoiceNumberDefaults(c.format, c.lastNumber,
                                                 c.date, today))

RepeatCalls ==
    {c \in GstCalls : c.taxableAmount \in {90, 1500} /\ c.cessRate = 0}
    \cup {c \in LineItemCalls :
            /\ c.quantity \in {333, 1000} /\ c.unitPrice = 160
            /\ c.discountPercent \in {0, 33330}
            /\ c.gstRate = 18000 /\ c.cessRate = 0}
    \cup {c \in GstinCalls :
            c.gstin \in {Null, Str(SampleGstin), Str(WrongCheckGstin)}}
    \cup {c \in InterStateCalls : c.supplierGstin = Str(SampleGstin)}
    \cup {c \in HsnSacCalls :
            c.code \in {Null, Str(<<"1", "2", "3">>),
                        Str(<<"9", "9", "7", "2", "1", "2">>)}}
    \cup {c \in WordsCalls : c.amount \in {0, 1999, 21450}}
    \cup [fn : {"generateInvoiceNumber"},
          format : {Omitted, DefaultFormat,
                    <<"I", "N", "V", "-", "{", "#", "#", "#", "#", "}">>},
          lastNumber : {Omitted, Null,
                        Str(<<"I", "N", "V", "-", "2", "0", "2", "4", "-", "0", "1", "-", "0", "0", "0", "5">>)},
          date : {Omitted} \cup DateInputs]

InitRepeat ==
    /\ call \in RepeatCalls
    /\ ret = Pending
    /\ lineItems = <<>>
    /\ invoices = <<>>
    /\ Idle

\* The call is made, for the first time or once more
CallOperation ==
    /\ ret' = Outcome(call, now)
    /\ UNCHANGED <<call, lineItems, invoices, env>>

\* The date moves on
Tick ==
    /\ \E d \in DateInputs :
        /\ DateLeq(now, d) /\ d # now
        /\ now' = d
    /\ UNCHANGED <<call, ret, lineItems, invoices, tasks, invoked>>

NextRepeat == CallOperation \/ Tick

SpecRepeat == InitRepeat /\ [][NextRepeat]_vars

(***************************************************************************)
(* C23: every operation is deterministic in its arguments: a call with the *)
(* same arguments as the call before it has the same outcome, whatever     *)
(* happened in between and whatever the surroundings are, also for         *)
(* generateInvoiceNumber called with the default values of its parameters. *)
(***************************************************************************)
C23_Deterministic ==
    [][(ret.st # "pending" /\ ret'.st # "pending" /\ call' = call)
          => ret' = ret]_vars


\* ---- validateGstin and the form its argument is written in ----

\* gstin without its whitespace and in upper case
Normalized(gstin) == Str(ToUpperCase(RemoveSpaces(gstin.chars)))

(***************************************************************************)
(* C24: validateGstin normalizes before it checks: it never throws, its    *)
(* result is the result for the argument without whitespace and in upper   *)
(* case, and an argument that is not a string, or is empty once its        *)
(* whitespace is removed, gives isValid false with the error GSTIN is      *)
(* required.                                                               *)
(***************************************************************************)
C24_NormalizedFirst ==
    (call.fn = "validateGstin" /\ ret.st # "pending") =>
        /\ ret.st = "returned"
        /\ IsString(call.gstin) =>
             ret.value = validateGstin(Normalized(call.gstin))
        /\ (~IsString(call.gstin) \/ Normalized(call.gstin) = Str(<<>>)) =>
             ret.value = [isValid |-> FALSE, error |-> "GSTIN is required"]

(***************************************************************************)
(* Invoices created in separate steps.  Each creator reads the last issued *)
(* number, generates the next one from what it read, and persists it; the  *)
(* steps of different creators interleave.  tasks[p] is the position of    *)
(* creator p with the number it read and the number it generated.          *)
(***************************************************************************)
Waiting == [at |-> "idle", last |-> Null, number |-> <<>>]

\* LastRead with a fault: the last number is read anew when generating
LastRead_Fresh(task, issued) == LastIssued(issued)

\* The lastNumber a creator gives to generateInvoiceNumber: the one it read
LastRead(task, issued) == task.last

\* The invoice_number values persisted so far
PersistedNumbers == {invoices[i].number : i \in 1..Len(invoices)}

InitRace ==
    /\ call \in CreateCalls
    /\ ret = Pending
    /\ lineItems = <<>>
    /\ invoices = <<>>
    /\ now = Today
    /\ tasks = [p \in Creators |-> Waiting]
    /\ invoked = <<>>

ReadLast(p) ==
    /\ tasks[p].at = "idle"
    /\ tasks' = [tasks EXCEPT ![p].at = "read",
                              ![p].last = LastIssued(invoices)]
    /\ UNCHANGED <<call, ret, lineItems, invoices, now, invoked>>

Generate(p) ==
    /\ tasks[p].at = "read"
    /\ ret' = Return(generateInvoiceNumber(call.format,
                                           LastRead(tasks[p], invoices),
                                           call.date))
    /\ tasks' = [tasks EXCEPT ![p].at = "generated",
                              ![p].number = ret'.value]
    /\ UNCHANGED <<call, lineItems, invoices, now, invoked>>

\* INSERT of the invoice; invoice_number is UNIQUE, so a number that is
\* persisted already is rejected
Persist(p) ==
    /\ tasks[p].at = "generated"
    /\ IF tasks[p].number \in PersistedNumbers
       THEN /\ tasks' = [tasks EXCEPT ![p].at = "rejected"]
            /\ UNCHANGED invoices
       ELSE /\ tasks' = [tasks EXCEPT ![p].at = "persisted"]
            /\ invoices' = Append(invoices,
                                  [creator |-> p, number |-> tasks[p].number])
    /\ UNCHANGED <<call, ret, lineItems, now, invoked>>

NextRace == \E p \in Creators : ReadLast(p) \/ Generate(p) \/ Persist(p)

SpecRace == InitRace /\ [][NextRace]_vars

\* Creator p has generated its number
HasGenerated(p) == tasks[p].at \in {"generated", "persisted", "rejected"}

HalfRate == FromDec(call.gstRate \div 2, 1000)

(***************************************************************************)
(* C26: in every GstCalculation IGST and CGST/SGST exclude each other and  *)
(* the rates add up.  Inter-state: cgst_rate = sgst_rate = 0, igst_rate =  *)
(* gstRate and cgst_amount = sgst_amount = 0.  Intra-state: cgst_rate =    *)
(* sgst_rate = gstRate / 2, igst_rate = 0, igst_amount = 0 and cgst_amount *)
(* = sgst_amount.  In both, cgst_rate + sgst_rate + igst_rate = gst_rate.  *)
(***************************************************************************)
C26_ExclusiveRates ==
    ReturnedGst =>
        /\ Gst.gst_rate = Arg(call.gstRate)
        /\ IF call.isInterState
           THEN /\ Gst.cgst_rate = FZero /\ Gst.sgst_rate = FZero
                /\ Gst.igst_rate = Arg(call.gstRate)
                /\ Gst.cgst_amount = 0 /\ Gst.sgst_amount = 0
           ELSE /\ Gst.cgst_rate = HalfRate /\ Gst.sgst_rate = HalfRate
                /\ Gst.igst_rate = FZero
                /\ Gst.igst_amount = 0
                /\ Gst.cgst_amount = Gst.sgst_amount
        /\ FAdd(FAdd(Gst.cgst_rate, Gst.sgst_rate), Gst.igst_rate) = Gst.gst_rate

\* An intra-state calculation at 5 %, whose halves are 2.5 %, with tax
C26_Witness ==
    /\ ReturnedGst /\ ~call.isInterState
    /\ call.gstRate = 5000
    /\ Gst.cgst_rate = FromDec(25, 10)
    /\ Gst.cgst_amount > 0

\* ---- The lengths of HSN codes ----

\* The code of the call is a string of digits and nothing else
IsDigitCode ==
    /\ IsString(call.code)
    /\ call.code.chars # <<>>
    /\ \A i \in 1..Len(call.code.chars) : call.code.chars[i] \in DigitSet

(***************************************************************************)
(* C27: HSN codes have 2, 4, 6 or 8 digits: validateHsnSac rejects every   *)
(* code of digits of odd length, such as 123, and every code of more than  *)
(* 8 digits, such as 123456789, and accepts 1234, 123456 and 12345678.     *)
(***************************************************************************)
C27_EvenLength ==
    (ReturnedHsnSac /\ IsDigitCode) =>
        /\ (Len(call.code.chars) % 2 = 1 \/ Len(call.code.chars) > 8)
             => ~ret.value.isValid
        /\ call.code.chars \in {<<"1", "2", "3", "4">>,
                                <<"1", "2", "3", "4", "5", "6">>,
                                <<"1", "2", "3", "4", "5", "6", "7", "8">>}
             => ret.value.isValid

\* ---- Inter-state classification and the state codes of validateGstin ----

\* validateGstin accepts the supplier and the customer of the call
BothAccepted ==
    /\ IsString(call.supplierGstin) /\ IsString(call.customerGstin)
    /\ validateGstin(call.supplierGstin).isValid
    /\ validateGstin(call.customerGstin).isValid

(***************************************************************************)
(* C28: for every supplier and customer string that validateGstin accepts, *)
(* isInterStateTransaction(supplier, customer, 'B2B') is true iff the two  *)
(* stateCode values validateGstin returns differ, also when a string has   *)
(* whitespace in front, which validateGstin strips.                        *)
(***************************************************************************)
C28_AgreesWithStateCode ==
    (ReturnedInterState /\ call.customerType = "B2B" /\ BothAccepted) =>
        (ret.value <=> validateGstin(call.supplierGstin).stateCode
                         # validateGstin(call.customerGstin).stateCode)

\* ---- validateGstinChecksum and the fifteenth character ----

\* The characters 0-9 and A-Z
Alphabet == DigitSet \cup UpperSet

\* The composed GSTINs whose characters are all of the alphabet
ChecksumCalls ==
    [fn : {"validateGstinChecksum"},
     gstin : {g \in ComposedGstins : \A i \in 1..15 : g[i] \in Alphabet}]

InitChecksum ==
    /\ call \in ChecksumCalls
    /\ ret = Pending
    /\ lineItems = <<>>
    /\ invoices = <<>>
    /\ Idle

CallValidateGstinChecksum ==
    /\ call.fn = "validateGstinChecksum"
    /\ ret.st = "pending"
    /\ ret' = Return(validateGstinChecksum(call.gstin))
    /\ UNCHANGED <<call, lineItems, invoices, env>>

NextChecksum == CallValidateGstinChecksum

SpecChecksum == InitChecksum /\ [][NextChecksum]_vars

ReturnedChecksum == call.fn = "validateGstinChecksum" /\ Returned

\* The fifteenth characters with which the first 14 of g pass
PassingCharacters(g) ==
    {c \in Alphabet : validateGstinChecksum(SubSeq(g, 1, 14) \o <<c>>)}

MaxApps == 2

Apps == 1..MaxApps

Unsettled == [st |-> "unsettled"]

Resolved(v) == [st |-> "resolved", value |-> v]

Rejected(e) == [st |-> "rejected", error |-> e]

\* What the backend can settle a command of type boolean to: true, false,
\* or a rejection with an error object, an object without the key error,
\* a string or null
BackendOutcomes ==
    {Resolved(TRUE), Resolved(FALSE),
     Rejected([type |-> "object", keys |-> {"error", "message"}]),
     Rejected([type |-> "object", keys |-> {"message"}]),
     Rejected([type |-> "string"]), Rejected(Null)}

\* tauriInvoke, once invoke(command) has settled to outcome
tauriInvoke(command, outcome) ==
    IF outcome.st = "resolved" THEN Return(outcome.value)
    ELSE IF /\ outcome.error.type = "object"
            /\ "error" \in outcome.error.keys
    THEN Throw(<<"TauriError", command>>)
    ELSE Throw(<<"Failed to execute command: ", command>>)

\* The command a call of initializeApp invoked last
LastInvoked(p) == invoked[p][Len(invoked[p])]

InitApp ==
    /\ call = [fn |-> "initializeApp"]
    /\ ret = Pending
    /\ lineItems = <<>>
    /\ invoices = <<>>
    /\ now = Today
    /\ tasks = [p \in Apps |-> [at |-> "start", promise |-> Pending]]
    /\ invoked = [p \in Apps |-> <<>>]

\* initializeApp up to its first await: api.database.initialize()
StartInitializeApp(p) ==
    /\ tasks[p].at = "start"
    /\ invoked' = [invoked EXCEPT ![p] =
          Append(@, [command |-> "initialize_database", outcome |-> Unsettled])]
    /\ tasks' = [tasks EXCEPT ![p].at = "initialize"]
    /\ UNCHANGED <<call, ret, lineItems, invoices, now>>

\* The backend settles the command a call is waiting for
SettleCommand(p) ==
    /\ tasks[p].at \in {"initialize", "checkHealth"}
    /\ LastInvoked(p).outcome = Unsettled
    /\ \E o \in BackendOutcomes :
        invoked' = [invoked EXCEPT ![p][Len(invoked[p])].outcome = o]
    /\ UNCHANGED <<call, ret, lineItems, invoices, now, tasks>>

\* initializeApp after await api.database.initialize(): a throw goes to the
\* catch block, which returns false; otherwise checkHealth() is invoked
ResumeInitialize(p) ==
    /\ tasks[p].at = "initialize"
    /\ LastInvoked(p).outcome # Unsettled
    /\ IF tauriInvoke("initialize_database", LastInvoked(p).outcome).st = "threw"
       THEN /\ tasks' = [tasks EXCEPT ![p] =
                            [at |-> "done", promise |-> Return(FALSE)]]
            /\ ret' = Return(FALSE)
            /\ UNCHANGED invoked
       ELSE /\ tasks' = [tasks EXCEPT ![p].at = "checkHealth"]
            /\ invoked' = [invoked EXCEPT ![p] =
                  Append(@, [command |-> "check_database_health",
                             outcome |-> Unsettled])]
            /\ UNCHANGED ret
    /\ UNCHANGED <<call, lineItems, invoices, now>>

\* What initializeApp returns after await api.database.checkHealth()
HealthChecked(isHealthy) ==
    IF isHealthy.st = "threw" THEN Return(FALSE)
    ELSE IF ~isHealthy.value THEN Return(FALSE)
    ELSE Return(TRUE)

ResumeCheckHealth(p) ==
    /\ tasks[p].at = "checkHealth"
    /\ LastInvoked(p).outcome # Unsettled
    /\ ret' = HealthChecked(tauriInvoke("check_database_health",
                                        LastInvoked(p).outcome))
    /\ tasks' = [tasks EXCEPT ![p] = [at |-> "done", promise |-> ret']]
    /\ UNCHANGED <<call, lineItems, invoices, now, invoked>>

NextApp ==
    \E p \in Apps :
        \/ StartInitializeApp(p)
        \/ SettleCommand(p)
        \/ ResumeInitialize(p)
        \/ ResumeCheckHealth(p)

SpecApp == InitApp /\ [][NextApp]_vars

\* The outcome of the command of call p, unsettled if it was not invoked
OutcomeOf(p, command) ==
    IF \E i \in 1..Len(invoked[p]) : invoked[p][i].command = command
    THEN invoked[p][CHOOSE i \in 1..Len(invoked[p]) :
                       invoked[p][i].command = command].outcome
    ELSE Unsettled

(***************************************************************************)
(* C30: initializeApp never rejects and orders its two steps: it invokes   *)
(* check_database_health only after initialize_database has resolved; it   *)
(* resolves to true only if the initialization returned true and the       *)
(* health check returned true; a rejection or a false health check         *)
(* resolves to false.                                                      *)
(***************************************************************************)
C30_InitializeApp ==
    call.fn = "initializeApp" =>
        \A p \in DOMAIN tasks :
            /\ tasks[p].promise.st # "threw"
            /\ OutcomeOf(p, "check_database_health") # Unsettled
                 => OutcomeOf(p, "initialize_database").st = "resolved"
            /\ Len(invoked[p]) = 2
                 => /\ invoked[p][1].command = "initialize_database"
                    /\ invoked[p][1].outcome.st = "resolved"
            /\ tasks[p].promise = Return(TRUE)
                 => /\ OutcomeOf(p, "initialize_database") = Resolved(TRUE)
                    /\ OutcomeOf(p, "check_database_health") = Resolved(TRUE)
            /\ tasks[p].at = "done"
                 => /\ tasks[p].promise.st = "returned"
                    /\ ( \/ OutcomeOf(p, "initialize_database").st = "rejected"
                         \/ OutcomeOf(p, "check_database_health").st = "rejected"
                         \/ OutcomeOf(p, "check_database_health") = Resolved(FALSE) )
                       => tasks[p].promise = Return(FALSE)
=============================================================================
